---- MODULE Spec2Model ----
(***************************************************************************)
(* Model of the browser-resource manager of mcp-web-context                *)
(* (src/src/mcp_web_context/scraper.py, class Scraper).                    *)
(*                                                                         *)
(* One Scraper instance serves NumRequests concurrent scrape_async calls   *)
(* on one asyncio event loop.  A step of the model is the code that one    *)
(* task runs between two suspension points (await).  URLs are sequences of *)
(* tokens so that urlparse, normalize_url and get_domain are computed and  *)
(* not assumed.                                                            *)
(***************************************************************************)
EXTENDS Integers, Sequences, FiniteSets, TLC

(* ------------------------------ bounds -------------------------------- *)

\* number of concurrent scrape_async calls
NumRequests == 2

\* max_retries of a call is drawn from 0..MaxRetriesBound
MaxRetriesBound == 1

\* Scraper._max_tabs is drawn from 1..MaxTabs (10 in __init__), scaled down
\* so that the calls contend for the slots
MaxTabs == 2

Requests == 1..NumRequests

Attempts == 0..MaxRetriesBound

\* a page is named by the call and the attempt that created it
PageIds == Requests \X Attempts

(* ---------------------------- URL strings ----------------------------- *)

\* A URL is a sequence of tokens: a scheme with its colon, "//", a userinfo
\* with its "@", host labels, ".", "[", a port with its colon and a path.
SchemeTokens == {"http:", "https:"}

PortTokens == {":8080"}

UserTokens == {"u@"}

PathTokens == {"//", "/x"}

URLs ==
  { <<"a", ".", "example", ".", "com">>,
    <<"https:", "//", "b", ".", "example", ".", "com">>,
    <<"http:", "//", "other", ".", "org">>,
    <<"[">>,
    <<"http:", "//", "[">>,
    <<>> }

Range(s) == { s[i] : i \in 1..Len(s) }

\* the token is made of letters, digits, "+", "-" and "." only
scheme_chars(t) ==
  t \notin SchemeTokens \cup PortTokens \cup UserTokens \cup PathTokens
             \cup {"[", "]"}

\* url.find(":"): the first token that holds a colon, 0 when there is none
find_colon(u) ==
  LET colons == { k \in 1..Len(u) : u[k] \in SchemeTokens \cup PortTokens }
  IN IF colons = {} THEN 0
     ELSE CHOOSE k \in colons : \A j \in colons : k <= j

\* urlsplit: the text before the first colon is the scheme when it is not
\* empty, begins with a letter and holds scheme characters only.  The result
\* is the last token of the scheme, 0 when the URL has none.
scheme_end(u) ==
  LET k == find_colon(u)
  IN IF k = 0 THEN 0
     ELSE IF /\ \A j \in 1..(k - 1) : scheme_chars(u[j])
             /\ (u[k] \in PortTokens => k > 1)
             /\ u[1] # "."
          THEN k
          ELSE 0

\* urlparse(url).scheme, with the colon that ends it
urlparse_scheme(u) == SubSeq(u, 1, scheme_end(u))

\* what urlsplit goes on with: the text after the colon of the scheme
AfterScheme(u) ==
  LET k == scheme_end(u)
  IN IF k = 0 THEN u
     ELSE IF u[k] \in PortTokens THEN SubSeq(u, k, Len(u))
     ELSE SubSeq(u, k + 1, Len(u))

\* the text up to the first "/"
before_path(s) ==
  LET stops == { i \in 1..Len(s) : s[i] \in PathTokens }
  IN IF stops = {} THEN s
     ELSE SubSeq(s, 1, (CHOOSE i \in stops : \A j \in stops : i <= j) - 1)

\* urlparse(url).netloc: only what follows "//" is a network location
urlparse_netloc(u) ==
  LET rest == AfterScheme(u)
  IN IF Len(rest) > 0 /\ rest[1] = "//" THEN before_path(Tail(rest)) ELSE <<>>

\* urlparse raises ValueError("Invalid IPv6 URL") on an unbalanced bracket
\* in the network location
urlparse_raises(u) ==
  LET n == urlparse_netloc(u)
  IN \/ ("[" \in Range(n) /\ "]" \notin Range(n))
     \/ ("]" \in Range(n) /\ "[" \notin Range(n))

\* str.split("."): the parts between the dots, at least one part
RECURSIVE split_dot(_)
split_dot(s) ==
  IF \A i \in 1..Len(s) : s[i] # "."
  THEN << s >>
  ELSE LET k == CHOOSE i \in 1..Len(s) :
                  s[i] = "." /\ \A j \in 1..(i - 1) : s[j] # "."
       IN << SubSeq(s, 1, k - 1) >> \o split_dot(SubSeq(s, k + 1, Len(s)))

\* ".".join(parts)
RECURSIVE join_dot(_)
join_dot(parts) ==
  IF Len(parts) = 0 THEN <<>>
  ELSE IF Len(parts) = 1 THEN parts[1]
  ELSE parts[1] \o <<".">> \o join_dot(Tail(parts))

\* Scraper.get_domain (defined when urlparse does not raise)
get_domain(u) ==
  LET domain == urlparse_netloc(u)
      parts  == split_dot(domain)
  IN IF Len(parts) > 2
     THEN join_dot(SubSeq(parts, Len(parts) - 1, Len(parts)))
     ELSE domain

\* Scraper.normalize_url (defined when urlparse does not raise)
normalize_url(u) ==
  IF urlparse_scheme(u) = <<>> THEN <<"https:", "//">> \o u ELSE u

\* the strings that the url of a call can hold, before and after line 411
CallURLs == URLs \cup { normalize_url(u) : u \in URLs }

\* get_domain of each of them
domain_key == [u \in CallURLs |-> get_domain(u)]

(* ------------------------------ results ------------------------------- *)

NoResult == [content |-> "-", images |-> <<>>, title |-> "-"]

EmptyUrlResult ==
  [content |-> "A URL was not specified, cancelling request to browse website.",
   images |-> <<>>, title |-> ""]

ErrorKinds == {"TimeoutError", "ValueError", "FileNotFoundError", "Error"}

\* scrape_async, last attempt: return type(e).__name__, [], ""
FailureResult(kind) == [content |-> kind, images |-> <<>>, title |-> ""]

\* what _perform_scrape_operation returns
AttemptResult(o) ==
  CASE o = "ok_html" -> [content |-> "CONTENT", images |-> <<"img">>, title |-> "TITLE"]
    [] o = "ok_short" -> [content |-> "SHORT", images |-> <<"img">>, title |-> "TITLE"]
    [] o = "ok_pdf"  -> [content |-> "PDF_MARKDOWN", images |-> <<>>, title |-> "PDF_TITLE"]
    [] o = "content_timeout" ->
         [content |-> "Timeout getting content", images |-> <<>>, title |-> ""]

(* ------------------------------- state -------------------------------- *)

VARIABLES
  max_tabs,          \* Scraper._max_tabs
  url,               \* the call's url argument, normalized by scrape_async
  max_retries,       \* the call's max_retries argument
  pc,                \* where the call is suspended
  attempt,           \* loop variable of scrape_async
  was_locked,        \* local of rate_limit_for_domain
  in_throttle,       \* inside "async with semaphore" of rate_limit_for_domain
  has_tab,           \* inside "async with self._tab_semaphore"
  has_lease,         \* between the yield of get_context and its finally
  page,              \* local page of _scrape_attempt: TRUE when assigned
  outcome,           \* return value or exception of the running attempt
  errs,              \* exception kinds of the failed attempts, in order
  result,            \* what scrape_async returned
  domain_semaphores, \* Scraper._domain_semaphores: key -> semaphore value
  tab_semaphore,     \* value of Scraper._tab_semaphore
  context_lock,      \* Scraper._context_lock is held
  context_refcount,  \* Scraper._context_refcount
  shared_context,    \* Scraper._shared_context: 0 is None, else the context
  shared_driver,     \* Scraper._shared_driver is not None
  launches,          \* number of contexts launched so far
  live_contexts,     \* contexts launched and not closed
  page_state,        \* per page: "none", "open", "closed"
  close_calls,       \* per page: number of page.close() invocations
  task,              \* per page: where its _release_page task is
  page_imgs,         \* the <img> elements of the retrieved markup, in order
  in_soup,           \* positions of page_imgs still in the working document
  output_format,     \* the output_format argument
  image_urls,        \* what get_relevant_images returned
  pipe_pc,           \* "idle", "parsed" (soup built), "ranked"
  cache_db,          \* the rows of table "cache": key -> value, timestamp
  now,               \* datetime.now(timezone.utc), in minutes
  c_pc,              \* per call of the cached scrape: where it is suspended
  c_args,            \* per call: url, output_format, allow_cache
  c_ret,             \* per call: what the wrapper returned
  c_invoked,         \* per call: number of invocations of func
  b_urls,            \* the batch request: what each URL of the list is
  include_image,     \* the batch request: include_image
  b_pc,              \* per URL of the batch: where its _scrape is suspended
  b_res,             \* per URL of the batch: the ScrapeResult it returned
  b_state,           \* fetch_web_content: "gathering", "returned", "raised"
  b_results,         \* ScrapeResponse.results
  exit_pc,           \* where cleanup_on_exit is suspended, or "none"
  u_in,              \* the url argument of normalize_url and get_domain
  u_once,            \* normalize_url(url)
  u_twice,           \* normalize_url(normalize_url(url))
  u_domain,          \* get_domain(url)
  scroll_pc,         \* where scroll_page_to_bottom is suspended, or "none"
  total_scroll_percent,  \* its local variable of that name
  scroll_steps,      \* the number of passes of its loop that were started
  scroll_exit        \* why its loop was left, or "none"

reqvars == << max_tabs, url, max_retries, pc, attempt, was_locked, in_throttle, has_tab,
              has_lease, page, outcome, errs, result >>

semvars == << domain_semaphores, tab_semaphore >>

ctxvars == << context_lock, context_refcount, shared_context, shared_driver,
              launches, live_contexts >>

pagevars == << page_state, close_calls, task >>

scrapervars == << reqvars, semvars, ctxvars, pagevars >>

\* the content pipeline of one page (utils.py)
pipevars == << page_imgs, in_soup, output_format, image_urls, pipe_pc >>

\* the cached scrape operation (cache.py, routers/scraping.py)
cachevars == << cache_db, now, c_pc, c_args, c_ret, c_invoked >>

\* the static methods normalize_url and get_domain applied to one string
urlvars == << u_in, u_once, u_twice, u_domain >>

\* one call of scroll_page_to_bottom
scrollvars == << scroll_pc, total_scroll_percent, scroll_steps, scroll_exit >>

\* the batch endpoint (routers/scraping.py)
batchvars == << b_urls, include_image, b_pc, b_res, b_state, b_results >>

\* the variables of the other components than the Scraper
othervars == << pipevars, cachevars, batchvars, exit_pc, urlvars, scrollvars >>

\* what the image ranking, the cached call and the batch leave alone
pipe_rest == << scrapervars, cachevars, batchvars, exit_pc, urlvars, scrollvars >>

cache_rest == << scrapervars, pipevars, batchvars, exit_pc, urlvars, scrollvars >>

batch_rest == << scrapervars, pipevars, cachevars, exit_pc, urlvars, scrollvars >>

url_rest == << scrapervars, pipevars, cachevars, batchvars, exit_pc, scrollvars >>

scroll_rest == << scrapervars, pipevars, cachevars, batchvars, exit_pc, urlvars >>

vars == << scrapervars, othervars >>

\* no page is in the content pipeline
PipeIdle ==
  /\ page_imgs = <<>>
  /\ in_soup = {}
  /\ output_format = "none"
  /\ image_urls = <<>>
  /\ pipe_pc = "idle"

\* the callers of the cached scrape operation
NumCallers == 3

Callers == 1..NumCallers

NoData == [content |-> "-", by |-> 0]

\* the cache is empty and no cached call is made
CacheIdle ==
  /\ cache_db = << >>
  /\ now = 0
  /\ c_pc = [c \in Callers |-> "absent"]
  /\ c_args = [c \in Callers |->
                 [url |-> "u1", output_format |-> "text", allow_cache |-> TRUE]]
  /\ c_ret = [c \in Callers |-> NoData]
  /\ c_invoked = [c \in Callers |-> 0]

\* no batch request is being served
BatchIdle ==
  /\ b_urls = << >>
  /\ include_image = FALSE
  /\ b_pc = << >>
  /\ b_res = << >>
  /\ b_state = "idle"
  /\ b_results = << >>

\* no string is being normalized
\* scroll_page_to_bottom is not running
ScrollIdle ==
  /\ scroll_pc = "none"
  /\ total_scroll_percent = 0
  /\ scroll_steps = 0
  /\ scroll_exit = "none"

UrlIdle ==
  /\ u_in = << >>
  /\ u_once = << "-" >>
  /\ u_twice = << "-" >>
  /\ u_domain = << "-" >>

\* cleanup_on_exit has not been called
NotExiting == exit_pc = "none"

\* Scraper.__init__, and the calls to come.  Either all the calls run
\* concurrently and none may retry, or call 1 runs alone and may retry
\* (the other calls are never made: "absent").
ScraperInit ==
  /\ max_tabs \in 1..MaxTabs
  /\ url \in [Requests -> URLs]
  /\ max_retries \in [Requests -> 0..MaxRetriesBound]
  /\ pc \in [Requests -> {"idle", "absent"}]
  /\ \/ /\ \A r \in Requests : max_retries[r] = 0 /\ pc[r] = "idle"
     \/ /\ max_retries[1] > 0 /\ pc[1] = "idle"
        /\ \A r \in Requests \ {1} :
             /\ max_retries[r] = 0
             /\ pc[r] = "absent"
             /\ url[r] = <<>>
  /\ attempt = [r \in Requests |-> 0]
  /\ was_locked = [r \in Requests |-> FALSE]
  /\ in_throttle = [r \in Requests |-> FALSE]
  /\ has_tab = [r \in Requests |-> FALSE]
  /\ has_lease = [r \in Requests |-> FALSE]
  /\ page = [r \in Requests |-> FALSE]
  /\ outcome = [r \in Requests |-> "none"]
  /\ errs = [r \in Requests |-> <<>>]
  /\ result = [r \in Requests |-> NoResult]
  /\ domain_semaphores = << >>
  /\ tab_semaphore = max_tabs
  /\ context_lock = FALSE
  /\ context_refcount = 0
  /\ shared_context = 0
  /\ shared_driver = FALSE
  /\ launches = 0
  /\ live_contexts = {}
  /\ page_state = [p \in PageIds |-> "none"]
  /\ close_calls = [p \in PageIds |-> 0]
  /\ task = [p \in PageIds |-> "none"]

Init ==
  /\ ScraperInit
  /\ PipeIdle /\ CacheIdle /\ BatchIdle /\ NotExiting /\ UrlIdle /\ ScrollIdle

(* ----------------------- helpers of the actions ------------------------ *)

callvars == << max_tabs, url, max_retries >>

launchvars == << shared_context, shared_driver, launches, live_contexts >>

\* the calls queued on the semaphore of domain key d (Semaphore._waiters)
Waiters(d) ==
  { q \in Requests : pc[q] = "wait_domain" /\ domain_key[url[q]] = d }

\* (Faulty variant: only the queue is looked at, not the value.)
semaphore_locked_queue_only(value, waiters) == waiters # {}

\* asyncio.Semaphore.locked(): no free unit, or earlier waiters queued
semaphore_locked(value, waiters) == value = 0 \/ waiters # {}

\* a unit of an asyncio.Semaphore can be taken
\* (Faulty variant: a unit is handed out only while another stays free.)
can_acquire_spare(value) == value > 1

can_acquire(value) == value > 0

\* asyncio.Lock: "async with self._context_lock" can enter at once.
\* (Faulty variant: get_context and _release_context do not lock.)
lock_ignored == TRUE

lock_free == ~context_lock

\* _ensure_shared_context, line 359
needs_driver == ~shared_driver

\* _ensure_shared_context, line 362
needs_launch == shared_context = 0

\* scrape_async, line 425.
\* (Faulty variant: one attempt too few.)
is_last_attempt_off_by_one(r) == attempt[r] + 1 = max_retries[r]

is_last_attempt(r) == attempt[r] = max_retries[r]

\* _scrape_attempt lines 467-471: the finally starts the release task when
\* a page was assigned, whatever outcome o ends the attempt.
\* (Faulty variant: the release sits in "except Exception", which a
\* cancellation does not reach.)
release_page_unless_cancelled(r, o) == page[r] /\ o # "TimeoutError"

should_release_page(r, o) == page[r]

\* get_context lines 387-391: the finally gives the lease back whatever
\* outcome o is thrown in at the yield.
\* (Faulty variant: "except Exception" in place of "finally", which a
\* cancellation does not reach.)
lease_exit_unless_cancelled(r, o) == has_lease[r] /\ o # "TimeoutError"

lease_exit(r, o) == has_lease[r]

\* leaving "async with self._tab_semaphore": only a holder releases.
\* (Faulty variant: a release in a finally that also runs when the acquire
\* was cancelled.)
tab_release_unconditional(r) == tab_semaphore + 1

\* (Faulty variant: the slot is acquired by hand and never given back.)
tab_release_forgotten(r) == tab_semaphore

tab_release(r) == IF has_tab[r] THEN tab_semaphore + 1 ELSE tab_semaphore

\* scrape_async line 437: type(e).__name__ of the exception just caught.
\* (Faulty variant: the first exception of the call is kept and reported.)
first_error(r, o) == IF errs[r] # <<>> THEN errs[r][1] ELSE o

surfaced_error(r, o) == o

\* rate_limit_for_domain lines 60-63: the semaphore of key d, created on
\* first use.
\* (Faulty variant: a new semaphore on every call.)
fresh_semaphore(sems, d) ==
  [k \in DOMAIN sems \cup {d} |-> IF k = d THEN 1 ELSE sems[k]]

lookup_semaphore(sems, d) ==
  IF d \in DOMAIN sems
  THEN sems
  ELSE [k \in DOMAIN sems \cup {d} |-> IF k = d THEN 1 ELSE sems[k]]

ThisPage(r) == << r, attempt[r] >>

IsSuccess(o) == o \in {"ok_html", "ok_short", "ok_pdf", "content_timeout"}

\* scrape_async lines 421-448: the attempt of r returned or raised o
\* (sets pc, errs, result)
Settle(r, o) ==
  IF IsSuccess(o)
  THEN /\ result' = [result EXCEPT ![r] = AttemptResult(o)]
       /\ pc' = [pc EXCEPT ![r] = "done"]
       /\ UNCHANGED errs
  ELSE /\ errs' = [errs EXCEPT ![r] = Append(@, o)]
       /\ IF is_last_attempt(r)
          THEN /\ result' = [result EXCEPT ![r] = FailureResult(surfaced_error(r, o))]
               /\ pc' = [pc EXCEPT ![r] = "done"]
          ELSE /\ pc' = [pc EXCEPT ![r] = "backoff"]
               /\ UNCHANGED result

\* The attempt of r ends with outcome o.  The exit stack of _scrape_attempt
\* unwinds: get_context lines 389-391 (when decrement: it needs the lock and
\* waits for it suspended), then the tab semaphore, then the semaphore of
\* rate_limit_for_domain; the finally of lines 467-471 starts the release
\* task of the page; scrape_async settles the outcome.
\* Sets pc, outcome, errs, result, in_throttle, has_tab, has_lease, page,
\* domain_semaphores, tab_semaphore, context_refcount and task.
Leave(r, o, decrement) ==
  IF decrement /\ ~lock_free
  THEN /\ pc' = [pc EXCEPT ![r] = "unwinding"]
       /\ outcome' = [outcome EXCEPT ![r] = o]
       /\ UNCHANGED << errs, result, in_throttle, has_tab, has_lease, page,
                       domain_semaphores, tab_semaphore, context_refcount,
                       task >>
  ELSE /\ context_refcount' =
            IF decrement THEN context_refcount - 1 ELSE context_refcount
       /\ has_lease' = [has_lease EXCEPT ![r] = FALSE]
       /\ tab_semaphore' = tab_release(r)
       /\ has_tab' = [has_tab EXCEPT ![r] = FALSE]
       /\ domain_semaphores' =
            IF in_throttle[r]
            THEN [domain_semaphores EXCEPT ![domain_key[url[r]]] = @ + 1]
            ELSE domain_semaphores
       /\ in_throttle' = [in_throttle EXCEPT ![r] = FALSE]
       /\ task' = IF should_release_page(r, o)
                  THEN [task EXCEPT ![ThisPage(r)] = "scheduled"]
                  ELSE task
       /\ page' = [page EXCEPT ![r] = FALSE]
       /\ outcome' = [outcome EXCEPT ![r] = "none"]
       /\ Settle(r, o)

\* get_context lines 385-386 once the context exists: the lease is taken
\* and the lock released
TakeLease(r) ==
  /\ context_refcount' = context_refcount + 1
  /\ has_lease' = [has_lease EXCEPT ![r] = TRUE]
  /\ context_lock' = FALSE
  /\ pc' = [pc EXCEPT ![r] = "new_page"]

\* get_context line 384 entered, _ensure_shared_context up to its first
\* await (sets pc, context_lock, context_refcount, has_lease)
EnsureContext(r) ==
  IF needs_driver
  THEN /\ context_lock' = TRUE
       /\ pc' = [pc EXCEPT ![r] = "driver_start"]
       /\ UNCHANGED << context_refcount, has_lease >>
  ELSE IF needs_launch
  THEN /\ context_lock' = TRUE
       /\ pc' = [pc EXCEPT ![r] = "chrome_locks"]
       /\ UNCHANGED << context_refcount, has_lease >>
  ELSE TakeLease(r)

\* _scrape_attempt line 463: enter get_context, or wait for its lock
GetContext(r) ==
  IF lock_free
  THEN EnsureContext(r)
  ELSE /\ pc' = [pc EXCEPT ![r] = "wait_ctx"]
       /\ UNCHANGED << context_lock, context_refcount, has_lease >>

\* (Faulty variant: the tab semaphore is not entered before get_context.)
EnterWithoutTab(r) == GetContext(r) /\ UNCHANGED << tab_semaphore, has_tab >>

\* _scrape_attempt lines 462-463: take a tab slot and go on, or wait for
\* one (sets pc, tab_semaphore, has_tab, context_lock, context_refcount,
\* has_lease)
EnterTab(r) ==
  IF can_acquire(tab_semaphore)
  THEN /\ tab_semaphore' = tab_semaphore - 1
       /\ has_tab' = [has_tab EXCEPT ![r] = TRUE]
       /\ GetContext(r)
  ELSE /\ pc' = [pc EXCEPT ![r] = "wait_tab"]
       /\ UNCHANGED << tab_semaphore, has_tab, context_lock,
                       context_refcount, has_lease >>

(* ------------------------- scrape_async: entry ------------------------- *)

\* scrape_async, lines 411-419
Call(r) ==
  /\ pc[r] = "idle"
  /\ IF urlparse_raises(url[r])
     THEN /\ pc' = [pc EXCEPT ![r] = "raised"]
          /\ UNCHANGED << url, result >>
     ELSE LET n == normalize_url(url[r])
          IN /\ url' = [url EXCEPT ![r] = n]
             /\ IF n = <<>>
                THEN /\ result' = [result EXCEPT ![r] = EmptyUrlResult]
                     /\ pc' = [pc EXCEPT ![r] = "done"]
                ELSE /\ pc' = [pc EXCEPT ![r] = "ready"]
                     /\ UNCHANGED result
  /\ UNCHANGED othervars
  /\ UNCHANGED << max_tabs, max_retries, attempt, was_locked, in_throttle,
                  has_tab, has_lease, page, outcome, errs >>
  /\ UNCHANGED << semvars, ctxvars, pagevars >>

(* ----------------------- rate_limit_for_domain ------------------------- *)

\* _scrape_attempt line 461 into rate_limit_for_domain lines 57-73, and on
\* to the first suspension
StartAttempt(r) ==
  /\ pc[r] = "ready"
  /\ IF urlparse_raises(url[r])
     THEN \* get_domain raised: logged, then re-raised (line 71)
          /\ Leave(r, "ValueError", FALSE)
          /\ UNCHANGED << was_locked, context_lock >>
     ELSE LET d    == domain_key[url[r]]
              sems == lookup_semaphore(domain_semaphores, d)
              lk   == semaphore_locked(sems[d], Waiters(d))
          IN /\ was_locked' = [was_locked EXCEPT ![r] = lk]
             /\ IF lk
                THEN /\ domain_semaphores' = sems
                     /\ pc' = [pc EXCEPT ![r] = "wait_domain"]
                     /\ UNCHANGED << in_throttle, tab_semaphore, has_tab,
                                     context_lock, context_refcount, has_lease >>
                ELSE /\ domain_semaphores' = [sems EXCEPT ![d] = @ - 1]
                     /\ in_throttle' = [in_throttle EXCEPT ![r] = TRUE]
                     /\ EnterTab(r)
             /\ UNCHANGED << page, outcome, errs, result, task >>
  /\ UNCHANGED othervars
  /\ UNCHANGED << callvars, attempt, launchvars, page_state, close_calls >>

\* rate_limit_for_domain line 73: a queued acquirer gets the semaphore and
\* starts the pacing sleep of line 75
AcquireDomain(r) ==
  /\ pc[r] = "wait_domain"
  /\ can_acquire(domain_semaphores[domain_key[url[r]]])
  /\ domain_semaphores' =
       [domain_semaphores EXCEPT ![domain_key[url[r]]] = @ - 1]
  /\ in_throttle' = [in_throttle EXCEPT ![r] = TRUE]
  /\ IF was_locked[r]
     THEN /\ pc' = [pc EXCEPT ![r] = "pacing"]
          /\ UNCHANGED << tab_semaphore, has_tab, context_lock,
                          context_refcount, has_lease >>
     ELSE EnterTab(r)
  /\ UNCHANGED othervars
  /\ UNCHANGED << callvars, attempt, was_locked, page, outcome, errs, result >>
  /\ UNCHANGED << launchvars, pagevars >>

\* rate_limit_for_domain lines 75-76: the pacing sleep ends
PacingDone(r) ==
  /\ pc[r] = "pacing"
  /\ EnterTab(r)
  /\ UNCHANGED othervars
  /\ UNCHANGED << callvars, attempt, was_locked, in_throttle, page, outcome,
                  errs, result, domain_semaphores >>
  /\ UNCHANGED << launchvars, pagevars >>

(* ---------------------------- tab semaphore ---------------------------- *)

\* _scrape_attempt line 462: a waiting attempt gets a slot
AcquireTab(r) ==
  /\ pc[r] = "wait_tab"
  /\ can_acquire(tab_semaphore)
  /\ EnterTab(r)
  /\ UNCHANGED othervars
  /\ UNCHANGED << callvars, attempt, was_locked, in_throttle, page, outcome,
                  errs, result, domain_semaphores >>
  /\ UNCHANGED << launchvars, pagevars >>

(* ------------------- get_context / _ensure_shared_context -------------- *)

\* get_context line 384: a waiting attempt gets the lock
EnterContext(r) ==
  /\ pc[r] = "wait_ctx"
  /\ lock_free
  /\ EnsureContext(r)
  /\ UNCHANGED othervars
  /\ UNCHANGED << callvars, attempt, was_locked, in_throttle, has_tab, page,
                  outcome, errs, result >>
  /\ UNCHANGED << launchvars, semvars, pagevars >>

\* _ensure_shared_context line 360: async_playwright().start() returns
DriverStarted(r) ==
  /\ pc[r] = "driver_start"
  /\ shared_driver' = TRUE
  /\ IF needs_launch
     THEN /\ pc' = [pc EXCEPT ![r] = "chrome_locks"]
          /\ UNCHANGED << context_lock, context_refcount, has_lease >>
     ELSE TakeLease(r)
  /\ UNCHANGED othervars
  /\ UNCHANGED << callvars, attempt, was_locked, in_throttle, has_tab, page,
                  outcome, errs, result >>
  /\ UNCHANGED << shared_context, launches, live_contexts >>
  /\ UNCHANGED << semvars, pagevars >>

\* an await under the lock of get_context raises: "async with" releases
\* the lock and the exception leaves the attempt
\* (Faulty variant: the lock is taken by hand and kept when the await
\* raises.)
FailsHoldingLock(r, from) ==
  /\ pc[r] = from
  /\ Leave(r, "Error", FALSE)
  /\ UNCHANGED othervars
  /\ UNCHANGED << callvars, attempt, was_locked, context_lock >>
  /\ UNCHANGED << launchvars, page_state, close_calls >>

FailsUnderLock(r, from) ==
  /\ pc[r] = from
  /\ context_lock' = FALSE
  /\ Leave(r, "Error", FALSE)
  /\ UNCHANGED othervars
  /\ UNCHANGED << callvars, attempt, was_locked >>
  /\ UNCHANGED << launchvars, page_state, close_calls >>

\* _ensure_shared_context line 360 raises
DriverStartFails(r) == FailsUnderLock(r, "driver_start")

\* _cleanup_chrome_locks returns (it catches what it raises)
ChromeLocksDone(r) ==
  /\ pc[r] = "chrome_locks"
  /\ pc' = [pc EXCEPT ![r] = "launching"]
  /\ UNCHANGED othervars
  /\ UNCHANGED << callvars, attempt, was_locked, in_throttle, has_tab,
                  has_lease, page, outcome, errs, result >>
  /\ UNCHANGED << semvars, ctxvars, pagevars >>

\* _ensure_shared_context lines 366-374: launch_persistent_context returns
Launched(r) ==
  /\ pc[r] = "launching"
  /\ launches' = launches + 1
  /\ shared_context' = launches + 1
  /\ live_contexts' = live_contexts \cup {launches + 1}
  /\ TakeLease(r)
  /\ UNCHANGED othervars
  /\ UNCHANGED << callvars, attempt, was_locked, in_throttle, has_tab, page,
                  outcome, errs, result >>
  /\ UNCHANGED << shared_driver >>
  /\ UNCHANGED << semvars, pagevars >>

\* launch_persistent_context raises: no second launch is tried
LaunchFails(r) == FailsUnderLock(r, "launching")

(* ------------- _scrape_attempt / _perform_scrape_operation ------------- *)

\* a step of the page session that changes only the call's position
StageStep(r, from, to) ==
  /\ pc[r] = from
  /\ pc' = [pc EXCEPT ![r] = to]
  /\ UNCHANGED othervars
  /\ UNCHANGED << callvars, attempt, was_locked, in_throttle, has_tab,
                  has_lease, page, outcome, errs, result >>
  /\ UNCHANGED << semvars, ctxvars, pagevars >>

\* a step of the page session that ends the attempt with outcome o
StageEnds(r, from, o) ==
  /\ pc[r] = from
  /\ Leave(r, o, lease_exit(r, o))
  /\ UNCHANGED othervars
  /\ UNCHANGED << callvars, attempt, was_locked, context_lock >>
  /\ UNCHANGED << launchvars, page_state, close_calls >>

\* _scrape_attempt line 465: context.new_page() returns
NewPage(r) ==
  /\ pc[r] = "new_page"
  /\ page' = [page EXCEPT ![r] = TRUE]
  /\ page_state' = [page_state EXCEPT ![ThisPage(r)] = "open"]
  /\ pc' = [pc EXCEPT ![r] = "navigating"]
  /\ UNCHANGED othervars
  /\ UNCHANGED << callvars, attempt, was_locked, in_throttle, has_tab,
                  has_lease, outcome, errs, result >>
  /\ UNCHANGED << close_calls, task >>
  /\ UNCHANGED << semvars, ctxvars >>

\* context.new_page() raises
NewPageFails(r) == StageEnds(r, "new_page", "Error")

\* _perform_scrape_operation line 175: page.goto returns, no PDF headers
Navigated(r) == StageStep(r, "navigating", "settling")

\* line 175 then 189-191: the response headers announce a PDF
NavigatedPdf(r) == StageStep(r, "navigating", "pdf_body")

\* page.goto raises
NavigationFails(r) == StageEnds(r, "navigating", "Error")

\* lines 191-193: the body is fetched and converted
PdfParsed(r) == StageEnds(r, "pdf_body", "ok_pdf")

\* lines 194-196: fetching or converting raises; the HTML flow continues.
\* (Faulty variant: no try/except around the PDF handling.)
PdfFailsRaises(r) == StageEnds(r, "pdf_body", "Error")

PdfFails(r) == StageStep(r, "pdf_body", "settling")

\* The settle waits of lines 205-208.  A call is at "settling" in
\* wait_or_timeout(page, "load", 5) and at "settling_idle" in the sleep of
\* line 207 and wait_or_timeout(page, "networkidle", 2).
SettleWaits == {"settling", "settling_idle"}

\* wait_or_timeout lines 164-168: the except clause of the wait
timeout_handler(w) == IF w = "settling" THEN "load_timeout" ELSE "idle_timeout"

\* what follows the wait in _perform_scrape_operation
after_wait(w) == IF w = "settling" THEN "settling_idle" ELSE "scrolling"

\* line 205: the load state is reached in time
LoadStateReached(r) == StageStep(r, "settling", "settling_idle")

\* line 208: the network is idle in time; the settle waits are over.
\* (Faulty variant: the scroll of line 210 is left out.)
SettledSkipsScroll(r) == StageStep(r, "settling_idle", "extracting")

Settled(r) == StageStep(r, "settling_idle", "scrolling")

\* wait_or_timeout lines 161-164: asyncio.wait_for gives up on the wait
\* and raises asyncio.TimeoutError, which the except clause catches
WaitTimesOut(r) ==
  \E w \in SettleWaits : StageStep(r, w, timeout_handler(w))

\* wait_or_timeout lines 165-168: the timeout is logged and
\* wait_or_timeout returns.
\* (Faulty variant: wait_or_timeout without its except clause.)
TimeoutRaised(r) ==
  \E w \in SettleWaits : StageEnds(r, timeout_handler(w), "TimeoutError")

TimeoutLogged(r) ==
  \E w \in SettleWaits : StageStep(r, timeout_handler(w), after_wait(w))

\* wait_or_timeout lets through what is not asyncio.TimeoutError
SettleFails(r) == \E w \in SettleWaits : StageEnds(r, w, "Error")

\* line 210: scroll_page_to_bottom returns (it catches what it raises)
\* (Faulty variant: no except clauses in scroll_page_to_bottom.)
ScrollRaises(r) == StageEnds(r, "scrolling", "Error")

Scrolled(r) == StageStep(r, "scrolling", "extracting")

\* lines 214, 226-248, 273: the markup is retrieved and converted, the
\* content has 400 characters or more
Extracted(r) == StageEnds(r, "extracting", "ok_html")

\* lines 214, 226-262: the content is shorter than 400 characters, the
\* screenshot directory is there or made, the screenshot is started
ExtractedShort(r) == StageStep(r, "extracting", "screenshot")

\* line 255: screenshot_dir.mkdir(exist_ok=True) raises (no parent
\* directory "logs", no permission); it stands outside the try of line 259
ScreenshotDirFails(r) == StageEnds(r, "extracting", "FileNotFoundError")

\* lines 260-262, 270-273: the screenshot is written
ScreenshotTaken(r) == StageEnds(r, "screenshot", "ok_short")

\* lines 263-264, 270-273: the screenshot takes more than 5 s, logged
ScreenshotTimeout(r) == StageEnds(r, "screenshot", "ok_short")

\* lines 265-268, 270-273: page.screenshot raises, logged
ScreenshotFails(r) == StageEnds(r, "screenshot", "ok_short")

\* lines 215-224: the wait for page.content() times out; a value is returned
ContentTimeout(r) == StageEnds(r, "extracting", "content_timeout")

\* page.content() or the conversion raises
ExtractionFails(r) == StageEnds(r, "extracting", "Error")

(* ------------------------ the overall timeout -------------------------- *)

\* suspension points of an attempt at which it holds the context lock
LockHeldPcs == {"driver_start", "chrome_locks", "launching"}

\* suspension points of an attempt that runs forward
SuspendedPcs ==
  {"wait_domain", "pacing", "wait_tab", "wait_ctx", "new_page", "navigating",
   "pdf_body", "settling", "settling_idle", "scrolling", "extracting",
   "screenshot"}
    \cup LockHeldPcs

\* scrape_async lines 421-423: wait_for cancels the attempt where it is
\* suspended
Timeout(r) ==
  /\ pc[r] \in SuspendedPcs
  /\ context_lock' = IF pc[r] \in LockHeldPcs THEN FALSE ELSE context_lock
  /\ Leave(r, "TimeoutError", lease_exit(r, "TimeoutError"))
  /\ UNCHANGED othervars
  /\ UNCHANGED << callvars, attempt, was_locked >>
  /\ UNCHANGED << launchvars, page_state, close_calls >>

\* An attempt that is unwinding is suspended in the finally of get_context,
\* waiting for the lock: cancelled there by wait_for, it leaves without the
\* decrement of line 391.
TimeoutUnwinding(r) ==
  /\ pc[r] = "unwinding"
  /\ outcome[r] # "TimeoutError"
  /\ Leave(r, "TimeoutError", FALSE)
  /\ UNCHANGED othervars
  /\ UNCHANGED << callvars, attempt, was_locked, context_lock >>
  /\ UNCHANGED << launchvars, page_state, close_calls >>

(* ------------------- leaving the attempt, and retrying ----------------- *)

\* get_context line 390: the lock is obtained; the unwinding goes on
Unwind(r) ==
  /\ pc[r] = "unwinding"
  /\ lock_free
  /\ Leave(r, outcome[r], TRUE)
  /\ UNCHANGED othervars
  /\ UNCHANGED << callvars, attempt, was_locked, context_lock >>
  /\ UNCHANGED << launchvars, page_state, close_calls >>

\* scrape_async line 448: the backoff sleep ends, the loop goes on
BackoffDone(r) ==
  /\ pc[r] = "backoff"
  /\ attempt' = [attempt EXCEPT ![r] = @ + 1]
  /\ pc' = [pc EXCEPT ![r] = "ready"]
  /\ UNCHANGED othervars
  /\ UNCHANGED << callvars, was_locked, in_throttle, has_tab, has_lease, page,
                  outcome, errs, result >>
  /\ UNCHANGED << semvars, ctxvars, pagevars >>

(* ----------------- _release_page and _release_context ------------------ *)

\* _release_context line 296
should_release == context_refcount <= 0

\* (Faulty variant: no second look at the refcount after the sleep.)
still_stored == shared_context # 0

\* _release_context line 304
still_unused == context_refcount <= 0 /\ shared_context # 0

\* _release_context lines 295-300: the first look at the refcount, under
\* the lock (sets task)
FirstLook(p) ==
  task' = [task EXCEPT ![p] = IF should_release THEN "grace" ELSE "done"]

\* _release_page line 476: the task starts and calls page.close()
TaskStart(p) ==
  /\ task[p] = "scheduled"
  /\ close_calls' = [close_calls EXCEPT ![p] = @ + 1]
  /\ task' = [task EXCEPT ![p] = "closing"]
  /\ UNCHANGED page_state
  /\ UNCHANGED othervars
  /\ UNCHANGED << reqvars, semvars, ctxvars >>

\* line 476 returns; _release_context lines 293-300 up to its first
\* suspension
PageClosed(p) ==
  /\ task[p] = "closing"
  /\ page_state' = [page_state EXCEPT ![p] = "closed"]
  /\ IF shared_context = 0
     THEN task' = [task EXCEPT ![p] = "done"]
     ELSE IF lock_free
     THEN FirstLook(p)
     ELSE task' = [task EXCEPT ![p] = "rc_lock"]
  /\ UNCHANGED close_calls
  /\ UNCHANGED othervars
  /\ UNCHANGED << reqvars, semvars, ctxvars >>

\* lines 478-487: page.close() times out or raises; _release_context is
\* skipped
PageCloseFails(p) ==
  /\ task[p] = "closing"
  /\ task' = [task EXCEPT ![p] = "done"]
  /\ UNCHANGED << page_state, close_calls >>
  /\ UNCHANGED othervars
  /\ UNCHANGED << reqvars, semvars, ctxvars >>

\* _release_context line 295: the lock is obtained after a wait
ReleaseCheck(p) ==
  /\ task[p] = "rc_lock"
  /\ lock_free
  /\ FirstLook(p)
  /\ UNCHANGED << page_state, close_calls >>
  /\ UNCHANGED othervars
  /\ UNCHANGED << reqvars, semvars, ctxvars >>

\* lines 300-305: the grace sleep ends, the lock is taken, the second look
GraceDone(p) ==
  /\ task[p] = "grace"
  /\ lock_free
  /\ IF still_unused
     THEN /\ context_lock' = TRUE
          /\ task' = [task EXCEPT ![p] = "ctx_closing"]
     ELSE /\ task' = [task EXCEPT ![p] = "done"]
          /\ UNCHANGED context_lock
  /\ UNCHANGED << page_state, close_calls >>
  /\ UNCHANGED << context_refcount, launchvars >>
  /\ UNCHANGED othervars
  /\ UNCHANGED << reqvars, semvars >>

\* lines 305-307: the context is closed and forgotten
ContextClosed(p) ==
  /\ task[p] = "ctx_closing"
  /\ live_contexts' = live_contexts \ {shared_context}
  /\ shared_context' = 0
  /\ IF shared_driver
     THEN /\ task' = [task EXCEPT ![p] = "drv_stopping"]
          /\ UNCHANGED context_lock
     ELSE /\ task' = [task EXCEPT ![p] = "done"]
          /\ context_lock' = FALSE
  /\ UNCHANGED << page_state, close_calls >>
  /\ UNCHANGED << context_refcount, shared_driver, launches >>
  /\ UNCHANGED othervars
  /\ UNCHANGED << reqvars, semvars >>

\* (Faulty variant: the lock is taken by hand and not given back when an
\* await under it raises.)
TeardownFailsLocked(p, from) ==
  /\ task[p] = from
  /\ task' = [task EXCEPT ![p] = "done"]
  /\ UNCHANGED << page_state, close_calls >>
  /\ UNCHANGED << context_lock, context_refcount, launchvars >>
  /\ UNCHANGED othervars
  /\ UNCHANGED << reqvars, semvars >>

\* an await under the lock of _release_context raises: lines 310-313 log
\* it, the lock is released, what was stored stays stored
TeardownFails(p, from) ==
  /\ task[p] = from
  /\ context_lock' = FALSE
  /\ task' = [task EXCEPT ![p] = "done"]
  /\ UNCHANGED << page_state, close_calls >>
  /\ UNCHANGED << context_refcount, launchvars >>
  /\ UNCHANGED othervars
  /\ UNCHANGED << reqvars, semvars >>

\* line 305 raises
ContextCloseFails(p) == TeardownFails(p, "ctx_closing")

\* lines 308-309: the driver is stopped and forgotten
DriverStopped(p) ==
  /\ task[p] = "drv_stopping"
  /\ shared_driver' = FALSE
  /\ context_lock' = FALSE
  /\ task' = [task EXCEPT ![p] = "done"]
  /\ UNCHANGED << page_state, close_calls >>
  /\ UNCHANGED << context_refcount, shared_context, launches, live_contexts >>
  /\ UNCHANGED othervars
  /\ UNCHANGED << reqvars, semvars >>

\* line 308 raises
DriverStopFails(p) == TeardownFails(p, "drv_stopping")

(* --------------------------- specification ----------------------------- *)

\* the steps of an attempt from the grant of its tab slot to the end of
\* its page session
HolderStep(r) ==
  \/ AcquireTab(r)
  \/ EnterContext(r)
  \/ DriverStarted(r)
  \/ DriverStartFails(r)
  \/ ChromeLocksDone(r)
  \/ Launched(r)
  \/ LaunchFails(r)
  \/ NewPage(r)
  \/ NewPageFails(r)
  \/ Navigated(r)
  \/ NavigatedPdf(r)
  \/ NavigationFails(r)
  \/ PdfParsed(r)
  \/ PdfFails(r)
  \/ LoadStateReached(r)
  \/ Settled(r)
  \/ WaitTimesOut(r)
  \/ TimeoutLogged(r)
  \/ SettleFails(r)
  \/ Scrolled(r)
  \/ Extracted(r)
  \/ ContentTimeout(r)
  \/ ExtractionFails(r)
  \/ ExtractedShort(r)
  \/ ScreenshotDirFails(r)
  \/ ScreenshotTaken(r)
  \/ ScreenshotTimeout(r)
  \/ ScreenshotFails(r)

RequestStep(r) ==
  \/ Call(r)
  \/ StartAttempt(r)
  \/ AcquireDomain(r)
  \/ PacingDone(r)
  \/ HolderStep(r)
  \/ Timeout(r)
  \/ BackoffDone(r)

TaskStep(p) ==
  \/ TaskStart(p)
  \/ PageClosed(p)
  \/ PageCloseFails(p)
  \/ ReleaseCheck(p)
  \/ GraceDone(p)
  \/ ContextClosed(p)
  \/ ContextCloseFails(p)
  \/ DriverStopped(p)
  \/ DriverStopFails(p)

Next ==
  \/ \E r \in Requests : RequestStep(r)
  \/ \E p \in PageIds : TaskStep(p)

Spec == Init /\ [][Next]_vars

\* The event loop runs every task made by asyncio.create_task: a release
\* task that was started gets to call page.close().
FairSpec == Spec /\ \A p \in PageIds : WF_vars(TaskStart(p))

\* The Scraper with a single tab slot, where a second call has to wait for
\* the first; the limiter does not look at the URL, and the first call's is
\* fixed.
LiveInit ==
  /\ Init
  /\ max_tabs = 1
  /\ url[1] = << "a", ".", "example", ".", "com" >>

\* Holders go on: the awaits of an attempt that holds a tab slot and of a
\* release task return, and a freed tab slot or lock wakes a waiter.  The
\* overall timeout may fire or not.
LiveSpec ==
  /\ LiveInit
  /\ [][Next]_vars
  /\ \A r \in Requests : WF_vars(HolderStep(r))
  /\ \A p \in PageIds : WF_vars(TaskStep(p))

(* --------------------------- cleanup_on_exit --------------------------- *)

\* what cleanup_on_exit leaves alone
exit_rest == << reqvars, semvars, pagevars, context_refcount, launches,
                pipevars, cachevars, batchvars, urlvars, scrollvars >>

\* lines 317-323, the tests of the two stored references: the close of the
\* context under the lock, else the stop of the driver, else the return
\* (sets exit_pc and context_lock)
ExitBegin ==
  IF shared_context # 0
  THEN IF lock_free
       THEN exit_pc' = "ctx_closing" /\ context_lock' = TRUE
       ELSE exit_pc' = "ctx_lock" /\ UNCHANGED context_lock
  ELSE /\ exit_pc' = IF shared_driver THEN "drv_stopping" ELSE "returned"
       /\ UNCHANGED context_lock

\* scraper_context_manager line 32: the finally awaits cleanup_on_exit
CleanupOnExit ==
  /\ exit_pc = "none"
  /\ ExitBegin
  /\ UNCHANGED << shared_context, shared_driver, live_contexts, exit_rest >>

\* line 318: the lock is obtained after a wait.  When the context was closed
\* and forgotten meanwhile, line 319 calls close() on None: the
\* AttributeError is swallowed by lines 325-326.
ExitLockGranted ==
  /\ exit_pc = "ctx_lock"
  /\ lock_free
  /\ IF shared_context # 0
     THEN exit_pc' = "ctx_closing" /\ context_lock' = TRUE
     ELSE exit_pc' = "returned" /\ UNCHANGED context_lock
  /\ UNCHANGED << shared_context, shared_driver, live_contexts, exit_rest >>

\* lines 319-323: the context is closed and forgotten, the lock released,
\* and the driver, if stored, is stopped next
ExitContextClosed ==
  /\ exit_pc = "ctx_closing"
  /\ live_contexts' = live_contexts \ {shared_context}
  /\ shared_context' = 0
  /\ context_lock' = FALSE
  /\ exit_pc' = IF shared_driver THEN "drv_stopping" ELSE "returned"
  /\ UNCHANGED << shared_driver, exit_rest >>

\* line 319 raises: the lock is released, lines 325-326 swallow the
\* exception and cleanup_on_exit returns
ExitContextCloseFails ==
  /\ exit_pc = "ctx_closing"
  /\ context_lock' = FALSE
  /\ exit_pc' = "returned"
  /\ UNCHANGED << shared_context, shared_driver, live_contexts, exit_rest >>

\* lines 322-323: the driver is stopped and forgotten
ExitDriverStopped ==
  /\ exit_pc = "drv_stopping"
  /\ shared_driver' = FALSE
  /\ exit_pc' = "returned"
  /\ UNCHANGED << context_lock, shared_context, live_contexts, exit_rest >>

\* line 322 raises: lines 325-326 swallow the exception
ExitDriverStopFails ==
  /\ exit_pc = "drv_stopping"
  /\ exit_pc' = "returned"
  /\ UNCHANGED << context_lock, shared_context, shared_driver, live_contexts,
                  exit_rest >>

ExitStep ==
  \/ CleanupOnExit
  \/ ExitLockGranted
  \/ ExitContextClosed
  \/ ExitContextCloseFails
  \/ ExitDriverStopped
  \/ ExitDriverStopFails

\* the Scraper at work while the process exits: an attempt that ends while
\* cleanup_on_exit holds the lock waits for it in the finally of get_context
ExitNext ==
  \/ Next
  \/ \E r \in Requests : Unwind(r) \/ TimeoutUnwinding(r)
  \/ ExitStep

ExitSpec == LiveInit /\ [][ExitNext]_vars

(* -------------------- content pipeline: the images --------------------- *)

\* the longest list of <img> elements of a page
MaxImages == 6

\* get_relevant_images: sorted_images[:5]
TopImages == 5

\* get_relevant_images: min_relevance_score = 2.0, in tenths
MinRelevanceScore == 20

\* A width or height attribute as written in the markup: the number n it
\* starts with and what follows the number ("": nothing).
Dim(n, unit) == [n |-> n, unit |-> unit]

\* the attribute is absent or empty: img.get(...) is falsy
NoValue == Dim(0, "absent")

\* utils.py line 94: "if img.get("width") and img.get("height")", per
\* attribute
has_value(v) == v # NoValue

\* utils.py lines 47-55: a trailing "px" in any case is cut off, float()
\* of the rest; what float() rejects gives 0
parse_dimension(v) ==
  IF v.unit \in {"", "px", "PX", "Px", "pX"} THEN v.n ELSE 0

\* The attributes of an <img> element that get_relevant_images reads:
\* cls: a class of relevant_classes is present; alt: text_similarity of the
\* alt text and the title in tenths (0: no alt text); width, height: the
\* attributes as written.
ImageAttrs ==
  { [cls |-> TRUE,  alt |-> 0,  width |-> NoValue, height |-> NoValue],
    [cls |-> FALSE, alt |-> 3,  width |-> NoValue, height |-> NoValue],
    [cls |-> TRUE,  alt |-> 10, width |-> Dim(800, ""), height |-> Dim(100, "")] }

\* an image below the minimum size, with a relevant class and a matching
\* alt text
SmallAttrs ==
  [cls |-> TRUE, alt |-> 10, width |-> Dim(100, ""), height |-> Dim(100, "")]

\* An <img> element: src is -1 without a src attribute, 0 when
\* urljoin(url, src) is no http(s) URL, else the URL it resolves to.
Img(src, a) ==
  [src |-> src, cls |-> a.cls, alt |-> a.alt, width |-> a.width,
   height |-> a.height]

SpecialKinds == {"same_as_first", "not_http", "no_src", "too_small"}

\* the element at position i, with attributes a, of a page whose element
\* j is of kind k; every other element has a URL of its own
ImgAt(i, a, j, k) ==
  IF i # j THEN Img(i, a)
  ELSE CASE k = "same_as_first" -> Img(1, a)
         [] k = "not_http" -> Img(0, a)
         [] k = "no_src" -> Img(-1, a)
         [] k = "too_small" -> Img(i, SmallAttrs)

\* the pages of n elements, at most one of them special
Pages(n) ==
  { [i \in 1..n |-> ImgAt(i, a[i], j, k)] :
      a \in [1..n -> ImageAttrs], j \in 0..n, k \in SpecialKinds }

Formats == {"text", "markdown", "html"}

\* utils.py lines 97-107: the size bonus in tenths, -1 for "continue"
size_bonus(w, h) ==
  IF w = 0 \/ h = 0 THEN 0
  ELSE IF w >= 2000 /\ h >= 1000 THEN 30
  ELSE IF w >= 1600 \/ h >= 800 THEN 20
  ELSE IF w >= 800 \/ h >= 500 THEN 10
  ELSE IF w >= 500 \/ h >= 300 THEN 0
  ELSE -1

\* utils.py lines 94-107: the size test of an element
size_score(img) ==
  IF has_value(img.width) /\ has_value(img.height)
  THEN size_bonus(parse_dimension(img.width), parse_dimension(img.height))
  ELSE 0

\* utils.py lines 78-99: the score before the size test, in tenths
base_score(img) == (IF img.cls THEN 20 ELSE 0) + 5 * img.alt

\* utils.py lines 59-112: the loop over all_images from position i on,
\* with the URLs seen so far
RECURSIVE image_info_list(_, _, _)
image_info_list(imgs, i, seen) ==
  IF i > Len(imgs) THEN <<>>
  ELSE LET img == imgs[i]
           bonus == size_score(img)
           score == base_score(img) + bonus
       IN IF img.src = -1 \/ img.src = 0 \/ img.src \in seen
          THEN image_info_list(imgs, i + 1, seen)
          ELSE IF bonus = -1 \/ score < MinRelevanceScore
          THEN image_info_list(imgs, i + 1, seen \cup {img.src})
          ELSE << [tag |-> i, url |-> img.src, score |-> score] >>
                 \o image_info_list(imgs, i + 1, seen \cup {img.src})

\* the list without its element at position k
Without(s, k) == SubSeq(s, 1, k - 1) \o SubSeq(s, k + 1, Len(s))

\* utils.py lines 115-117: sorted(..., reverse=True), stable.
\* (Faulty variant: the list is not sorted.)
not_sorted(s) == s

RECURSIVE sorted_images(_)
sorted_images(s) ==
  IF s = <<>> THEN <<>>
  ELSE LET k == CHOOSE i \in 1..Len(s) :
                  /\ \A j \in 1..Len(s) : s[j].score <= s[i].score
                  /\ \A j \in 1..(i - 1) : s[j].score < s[i].score
       IN << s[k] >> \o sorted_images(Without(s, k))

\* utils.py line 118
top_images(s) == SubSeq(s, 1, IF Len(s) < TopImages THEN Len(s) ELSE TopImages)

\* utils.py lines 59-118: the survivors with their tags
survivors(imgs) == top_images(sorted_images(image_info_list(imgs, 1, {})))

\* utils.py lines 120-125: the positions left in the document.  all_images
\* holds the elements with a src; "img not in image_tags_to_keep" compares
\* tags by their markup.
after_decompose(imgs, kept, decompose_irrelevant) ==
  IF ~decompose_irrelevant THEN 1..Len(imgs)
  ELSE { i \in 1..Len(imgs) :
           \/ imgs[i].src = -1
           \/ \E k \in 1..Len(kept) : imgs[kept[k].tag] = imgs[i] }

\* utils.py line 127: the dictionaries returned
image_dicts(kept) ==
  [k \in 1..Len(kept) |-> [url |-> kept[k].url, score |-> kept[k].score]]

\* scraper.py lines 229-237: decompose_irrelevant per output format
decompose_irrelevant_imgs(fmt) == fmt # "html"

\* scraper.py lines 226-237: get_relevant_images on the parsed markup
RankImages(fmt) ==
  /\ pipe_pc = "parsed"
  /\ LET kept == survivors(page_imgs)
     IN /\ image_urls' = image_dicts(kept)
        /\ in_soup' = after_decompose(page_imgs, kept,
                                      decompose_irrelevant_imgs(fmt))
  /\ output_format' = fmt
  /\ pipe_pc' = "ranked"
  /\ UNCHANGED << page_imgs, pipe_rest >>

\* the Scraper at rest: no call is made
ScraperAtRest ==
  /\ ScraperInit
  /\ max_tabs = 1
  /\ \A r \in Requests : url[r] = <<>> /\ max_retries[r] = 0

\* the markup of a page has been parsed
PipeInit ==
  /\ ScraperAtRest
  /\ NotExiting
  /\ UrlIdle
  /\ ScrollIdle
  /\ CacheIdle
  /\ BatchIdle
  /\ \E n \in 0..MaxImages : page_imgs \in Pages(n)
  /\ in_soup = 1..Len(page_imgs)
  /\ output_format = "none"
  /\ image_urls = <<>>
  /\ pipe_pc = "parsed"

PipeNext == \E fmt \in Formats : RankImages(fmt)

PipeSpec == PipeInit /\ [][PipeNext]_vars

\* the width and height attributes that an element can carry: the numbers
\* around the thresholds of lines 98-105, some with a unit
DeclaredDims ==
  { Dim(n, "") : n \in {0, 100, 299, 300, 499, 500, 799, 800, 1000, 1599,
                        1600, 2000} }
    \cup { Dim(100, "px"), Dim(800, "PX"), Dim(50, "%"), NoValue }

\* the pages of one <img> element with a URL of its own
SizedPages ==
  { << Img(1, [cls |-> c, alt |-> a, width |-> w, height |-> h]) >> :
      c \in BOOLEAN, a \in {0, 10}, w \in DeclaredDims, h \in DeclaredDims }

\* the markup of a page with one image has been parsed
SizeInit ==
  /\ ScraperAtRest
  /\ NotExiting
  /\ UrlIdle
  /\ ScrollIdle
  /\ CacheIdle
  /\ BatchIdle
  /\ page_imgs \in SizedPages
  /\ in_soup = 1..Len(page_imgs)
  /\ output_format = "none"
  /\ image_urls = <<>>
  /\ pipe_pc = "parsed"

SizeSpec == SizeInit /\ [][PipeNext]_vars

(* ------------------- the cached scrape operation ----------------------- *)

EXPIRY_MINUTES == 30

\* the instants at which the clock is read
Times == {0, 15, 30, 31, 60}

\* a text of n characters
RECURSIVE Text(_)
Text(n) ==
  IF n = 0 THEN ""
  ELSE IF n % 2 = 0 THEN LET half == Text(n \div 2) IN half \o half
  ELSE "x" \o Text(n - 1)

\* a URL of 356 characters
LongUrl == "https://example.com/" \o Text(336)

CacheUrls == {"u1", LongUrl}

\* the positional and keyword arguments of _scrape, with their Python types
BoundArguments(a) ==
  << [name |-> "url", type |-> "str", val |-> a.url],
     [name |-> "scraper", type |-> "Scraper", val |-> "scraper"],
     [name |-> "output_format", type |-> "str", val |-> a.output_format] >>

\* argument_serializers = {str: str}
argument_serializers == {"str"}

RECURSIVE serialized_arguments(_)
serialized_arguments(args) ==
  IF args = << >> THEN << >>
  ELSE LET rest == serialized_arguments(Tail(args)) IN
       IF Head(args).type \in argument_serializers
       THEN << << Head(args).name, Head(args).val >> >> \o rest
       ELSE rest

\* a key that leaves the output format out
get_key_without_format(a) == << "_scrape", << << "url", a.url >> >> >>

\* get_key: the name of the function and its serialized arguments
get_key(a) == << "_scrape", serialized_arguments(BoundArguments(a)) >>

\* ScrapeResult.model_dump_json and ScrapeResult.model_validate_json
result_serializer(data) == << "json", data.content, data.by >>

result_deserializer(value) == [content |-> value[2], by |-> value[3]]

\* the content of a page of 401 characters and of one of 400
LongContent == Text(401)

BorderContent == Text(400)

\* _perform_scrape_operation, lines 220-224: the content that is returned
\* when page.content() times out
timeout_content(u) ==
  "Timeout getting content for " \o u \o " after 10 seconds"

\* the contents with which scrape_async reports a failure for this url: the
\* name of the exception of the last attempt, the message for an empty URL
\* and the message of the content timeout
FailureContents(u) ==
  { FailureResult(kind).content : kind \in ErrorKinds }
    \cup { EmptyUrlResult.content, timeout_content(u) }

\* the contents that _scrape returns for this url
ScrapedContents(u) == {LongContent, BorderContent} \cup FailureContents(u)

\* isinstance(x, ScrapeResult) and len(x.content) > 400
predicate(data) == Len(data.content) > 400

\* an entry of any age is served
never_expires(timestamp) == TRUE

\* datetime.now(timezone.utc) - timestamp <= timedelta(minutes=EXPIRY_MINUTES)
is_fresh(timestamp) == now - timestamp <= EXPIRY_MINUTES

HasRow(key) == key \in DOMAIN cache_db

\* the rows of the table without the row of this key
DeleteRow(key) == [k \in DOMAIN cache_db \ {key} |-> cache_db[k]]

\* the rows of the table with this row inserted or replaced
MergeRow(key, row) ==
  [k \in DOMAIN cache_db \cup {key} |-> IF k = key THEN row ELSE cache_db[k]]

\* wrapper(...) is called: the key is computed and the session opened; with
\* allow_cache the SELECT is awaited, without it func is called at once.
CachedCall(c) ==
  /\ c_pc[c] = "idle"
  /\ IF c_args[c].allow_cache
     THEN /\ c_pc' = [c_pc EXCEPT ![c] = "select"]
          /\ UNCHANGED c_invoked
     ELSE /\ c_pc' = [c_pc EXCEPT ![c] = "scraping"]
          /\ c_invoked' = [c_invoked EXCEPT ![c] = @ + 1]
  /\ UNCHANGED << cache_db, now, c_args, c_ret, cache_rest >>

\* the SELECT found a row that is not older than EXPIRY_MINUTES
CacheHit(c) ==
  /\ c_pc[c] = "select"
  /\ HasRow(get_key(c_args[c]))
  /\ is_fresh(cache_db[get_key(c_args[c])].timestamp)
  /\ c_ret' = [c_ret EXCEPT
                 ![c] = result_deserializer(cache_db[get_key(c_args[c])].value)]
  /\ c_pc' = [c_pc EXCEPT ![c] = "done"]
  /\ UNCHANGED << cache_db, now, c_args, c_invoked, cache_rest >>

\* the SELECT found an older row: session.delete and commit are awaited
CacheExpired(c) ==
  /\ c_pc[c] = "select"
  /\ HasRow(get_key(c_args[c]))
  /\ ~ is_fresh(cache_db[get_key(c_args[c])].timestamp)
  /\ c_pc' = [c_pc EXCEPT ![c] = "deleting"]
  /\ UNCHANGED << cache_db, now, c_args, c_ret, c_invoked, cache_rest >>

\* the DELETE is committed, and func is called
ExpiredDeleted(c) ==
  /\ c_pc[c] = "deleting"
  /\ cache_db' = DeleteRow(get_key(c_args[c]))
  /\ c_pc' = [c_pc EXCEPT ![c] = "scraping"]
  /\ c_invoked' = [c_invoked EXCEPT ![c] = @ + 1]
  /\ UNCHANGED << now, c_args, c_ret, cache_rest >>

\* the SELECT found no row: func is called
CacheMiss(c) ==
  /\ c_pc[c] = "select"
  /\ ~ HasRow(get_key(c_args[c]))
  /\ c_pc' = [c_pc EXCEPT ![c] = "scraping"]
  /\ c_invoked' = [c_invoked EXCEPT ![c] = @ + 1]
  /\ UNCHANGED << cache_db, now, c_args, c_ret, cache_rest >>

\* func returns data; when the predicate accepts it the entry is built with
\* the current time and merged into the table; data is returned
ScrapeReturns(c, content) ==
  /\ c_pc[c] = "scraping"
  /\ c_ret' = [c_ret EXCEPT ![c] = [content |-> content, by |-> c]]
  /\ IF predicate(c_ret'[c])
     THEN /\ cache_db' =
               MergeRow(get_key(c_args[c]),
                        [value |-> result_serializer(c_ret'[c]),
                         timestamp |-> now])
          /\ c_pc' = [c_pc EXCEPT ![c] = "done"]
     ELSE /\ c_pc' = [c_pc EXCEPT ![c] = "done"]
          /\ UNCHANGED cache_db
  /\ UNCHANGED << now, c_args, c_invoked, cache_rest >>

\* func raises: the exception leaves the wrapper and nothing is stored
ScrapeRaises(c) ==
  /\ c_pc[c] = "scraping"
  /\ c_pc' = [c_pc EXCEPT ![c] = "raised"]
  /\ UNCHANGED << cache_db, now, c_args, c_ret, c_invoked, cache_rest >>

\* time passes
Tick ==
  /\ \E t \in Times : t > now /\ now' = t
  /\ UNCHANGED << cache_db, c_pc, c_args, c_ret, c_invoked, cache_rest >>

CacheArgs ==
  [url : CacheUrls, output_format : {"text", "markdown"},
   allow_cache : BOOLEAN]

CacheInit ==
  /\ ScraperAtRest
  /\ NotExiting
  /\ UrlIdle
  /\ ScrollIdle
  /\ PipeIdle
  /\ BatchIdle
  /\ cache_db = << >>
  /\ now = 0
  /\ c_pc = [c \in Callers |-> "idle"]
  /\ c_args \in [Callers -> CacheArgs]
  /\ c_args[1] = [url |-> "u1", output_format |-> "text", allow_cache |-> TRUE]
  /\ c_ret = [c \in Callers |-> NoData]
  /\ c_invoked = [c \in Callers |-> 0]

CacheStep(c) ==
  \/ CachedCall(c)
  \/ CacheHit(c)
  \/ CacheExpired(c)
  \/ ExpiredDeleted(c)
  \/ CacheMiss(c)
  \/ \E content \in ScrapedContents(c_args[c].url) : ScrapeReturns(c, content)
  \/ ScrapeRaises(c)

CacheNext == Tick \/ \E c \in Callers : CacheStep(c)

CacheSpec == CacheInit /\ [][CacheNext]_vars

(* ----------------------- the batch endpoint ---------------------------- *)

\* the longest list of URLs of a request
MaxUrls == 3

\* what a URL of the request turns out to be:
\*   cached        an entry of the cache is served
\*   page          the header probe succeeds, the browser scrape succeeds
\*   nav_error     the header probe succeeds, every browser attempt fails
\*   head_error    the header probe raises httpx.RequestError
\*   pdf           the header probe reports application/pdf, the download
\*                 and the conversion succeed
\*   pdf_error     the header probe reports application/pdf, the download
\*                 fails (resp.raise_for_status() or client.get raises)
UrlKinds == {"cached", "page", "nav_error", "head_error", "pdf", "pdf_error"}

UrlLists ==
  UNION { [1..n -> UrlKinds] : n \in 1..MaxUrls }

NoScrapeResult == [content |-> << "-", 0 >>, images |-> << >>, title |-> "-"]

\* ScrapeResult(content=..., images=..., title=...) for the i-th URL
ScrapeResult(i, content, images, title) ==
  [content |-> << content, i >>, images |-> images, title |-> title]

BatchItems == 1..Len(b_urls)

ItemReturns(i, scrape_result) ==
  /\ b_res' = [b_res EXCEPT ![i] = scrape_result]
  /\ b_pc' = [b_pc EXCEPT ![i] = "done"]

\* the wrapper finds a fresh entry and returns it
ServedFromCache(i) ==
  /\ b_pc[i] = "start"
  /\ b_urls[i] = "cached"
  /\ ItemReturns(i, ScrapeResult(i, "CACHED", << "img" >>, "title"))
  /\ UNCHANGED << b_urls, include_image, b_state, b_results, batch_rest >>

\* _scrape is called and awaits the HEAD request
HeadSent(i) ==
  /\ b_pc[i] = "start"
  /\ b_urls[i] # "cached"
  /\ b_pc' = [b_pc EXCEPT ![i] = "head"]
  /\ UNCHANGED << b_urls, include_image, b_res, b_state, b_results,
                  batch_rest >>

\* except httpx.RequestError: a result with the message is returned
HeadFails(i) ==
  /\ b_pc[i] = "head"
  /\ b_urls[i] = "head_error"
  /\ ItemReturns(i, ScrapeResult(i, "RequestError", << >>, ""))
  /\ UNCHANGED << b_urls, include_image, b_state, b_results, batch_rest >>

\* the headers arrive: _handle_pdf or scraper.scrape_async is awaited
HeadDone(i) ==
  /\ b_pc[i] = "head"
  /\ b_urls[i] # "head_error"
  /\ b_pc' = [b_pc EXCEPT
                ![i] = IF b_urls[i] \in {"pdf", "pdf_error"}
                       THEN "handle_pdf" ELSE "scrape_async"]
  /\ UNCHANGED << b_urls, include_image, b_res, b_state, b_results,
                  batch_rest >>

\* _handle_pdf returns the markdown of the document
PdfHandled(i) ==
  /\ b_pc[i] = "handle_pdf"
  /\ b_urls[i] = "pdf"
  /\ ItemReturns(i, ScrapeResult(i, "PDF", << >>, "pdf_document"))
  /\ UNCHANGED << b_urls, include_image, b_state, b_results, batch_rest >>

\* _handle_pdf raises; nothing in _scrape or in the wrapper catches it
PdfDownloadFails(i) ==
  /\ b_pc[i] = "handle_pdf"
  /\ b_urls[i] = "pdf_error"
  /\ b_pc' = [b_pc EXCEPT ![i] = "raised"]
  /\ UNCHANGED << b_urls, include_image, b_res, b_state, b_results,
                  batch_rest >>

\* scrape_async returns: the page, or the failure tuple of the last attempt
ScrapeAsyncReturns(i) ==
  /\ b_pc[i] = "scrape_async"
  /\ IF b_urls[i] = "page"
     THEN ItemReturns(i, ScrapeResult(i, "PAGE", << "img" >>, "title"))
     ELSE ItemReturns(i, ScrapeResult(i, "Error", << >>, ""))
  /\ UNCHANGED << b_urls, include_image, b_state, b_results, batch_rest >>

\* the gathered results that are ScrapeResult objects, in the order of the
\* awaitables, with their images cleared unless include_image
RECURSIVE collected(_)
collected(i) ==
  IF i > Len(b_urls) THEN << >>
  ELSE << IF include_image THEN b_res[i]
          ELSE [b_res[i] EXCEPT !.images = << >>] >> \o collected(i + 1)

\* asyncio.gather returns when every awaitable has returned
GatherReturns ==
  /\ b_state = "gathering"
  /\ \A i \in BatchItems : b_pc[i] = "done"
  /\ b_results' = collected(1)
  /\ b_state' = "returned"
  /\ UNCHANGED << b_urls, include_image, b_pc, b_res, batch_rest >>

\* asyncio.gather without return_exceptions: the first exception of an
\* awaitable is raised in fetch_web_content; the other awaitables run on
GatherRaises ==
  /\ b_state = "gathering"
  /\ \E i \in BatchItems : b_pc[i] = "raised"
  /\ b_state' = "raised"
  /\ UNCHANGED << b_urls, include_image, b_pc, b_res, b_results, batch_rest >>

BatchInit ==
  /\ ScraperAtRest
  /\ NotExiting
  /\ UrlIdle
  /\ ScrollIdle
  /\ PipeIdle
  /\ CacheIdle
  /\ b_urls \in UrlLists
  /\ include_image \in BOOLEAN
  /\ b_pc = [i \in BatchItems |-> "start"]
  /\ b_res = [i \in BatchItems |-> NoScrapeResult]
  /\ b_state = "gathering"
  /\ b_results = << >>

ItemStep(i) ==
  \/ ServedFromCache(i)
  \/ HeadSent(i)
  \/ HeadFails(i)
  \/ HeadDone(i)
  \/ PdfHandled(i)
  \/ PdfDownloadFails(i)
  \/ ScrapeAsyncReturns(i)

BatchNext ==
  \/ \E i \in 1..MaxUrls : i \in BatchItems /\ ItemStep(i)
  \/ GatherReturns
  \/ GatherRaises

BatchSpec == BatchInit /\ [][BatchNext]_vars

(* -------------------- normalize_url and get_domain --------------------- *)

NotCalled == << "-" >>

ValueError == << "ValueError" >>

UrlHosts ==
  { << "localhost" >>,
    << "example", ".", "com" >>,
    << "www", ".", "example", ".", "com" >>,
    << "a", ".", "www", ".", "example", ".", "com" >>,
    << "[" >>,
    << >> }

\* the strings passed as url
UrlInputs ==
  { scheme \o user \o host \o port \o path :
      scheme \in { << >>, << "https:", "//" >>, << "http:", "//" >>,
                   << "//" >> },
      user \in { << >>, << "u@" >> },
      host \in UrlHosts,
      port \in { << >>, << ":8080" >> },
      path \in { << >>, << "/x" >> } }

\* a call of Scraper.normalize_url: its return value or its exception
call_normalize_url(u) ==
  IF urlparse_raises(u) THEN ValueError ELSE normalize_url(u)

\* a call of Scraper.get_domain: its return value or its exception
call_get_domain(u) ==
  IF urlparse_raises(u) THEN ValueError ELSE get_domain(u)

\* normalize_url(url)
NormalizeOnce ==
  /\ u_once = NotCalled
  /\ u_once' = call_normalize_url(u_in)
  /\ UNCHANGED << u_in, u_twice, u_domain, url_rest >>

\* normalize_url(normalize_url(url))
NormalizeTwice ==
  /\ u_once \notin {NotCalled, ValueError}
  /\ u_twice = NotCalled
  /\ u_twice' = call_normalize_url(u_once)
  /\ UNCHANGED << u_in, u_once, u_domain, url_rest >>

\* get_domain(url)
GetDomain ==
  /\ u_domain = NotCalled
  /\ u_domain' = call_get_domain(u_in)
  /\ UNCHANGED << u_in, u_once, u_twice, url_rest >>

UrlInit ==
  /\ ScraperAtRest
  /\ NotExiting
  /\ PipeIdle
  /\ CacheIdle
  /\ BatchIdle
  /\ ScrollIdle
  /\ u_in \in UrlInputs
  /\ u_once = NotCalled
  /\ u_twice = NotCalled
  /\ u_domain = NotCalled

UrlNext == NormalizeOnce \/ NormalizeTwice \/ GetDomain

UrlSpec == UrlInit /\ [][UrlNext]_vars

(* ------------------------ scroll_page_to_bottom ------------------------ *)

\* line 102: the default of the parameter, which line 210 does not override
max_scroll_percent == 500

\* line 111: random.randint(46, 97).
\* (Faulty variant: randint(23, 97).)
SmallScrollPercents == 23 .. 97

ScrollPercents == 46 .. 97

\* line 133
cap_reached(total) == total >= max_scroll_percent

\* the loop is left: break, or an exception that is not caught
LoopLeft(why) ==
  /\ scroll_pc' = "returned"
  /\ scroll_exit' = why

\* lines 109-128: page.bring_to_front() returns, the step is drawn and
\* added, natural_scroll is started under wait_for
BroughtToFront ==
  /\ scroll_pc = "front"
  /\ \E scroll_percent \in ScrollPercents :
       total_scroll_percent' = total_scroll_percent + scroll_percent
  /\ scroll_steps' = scroll_steps + 1
  /\ scroll_pc' = "natural_scroll"
  /\ UNCHANGED << scroll_exit, scroll_rest >>

\* natural_scroll (lines 78-99) returns within 6 s; the sleep of line 130
\* and wait_or_timeout(page, "load", 2) follow
NaturalScrollDone ==
  /\ scroll_pc = "natural_scroll"
  /\ scroll_pc' = "load_wait"
  /\ UNCHANGED << total_scroll_percent, scroll_steps, scroll_exit, scroll_rest >>

\* lines 131-142: wait_or_timeout returns (in time or not); the loop is
\* left at the cap, else the page is asked whether it is at the bottom
LoadWaited ==
  /\ scroll_pc = "load_wait"
  /\ IF cap_reached(total_scroll_percent)
     THEN LoopLeft("cap")
     ELSE scroll_pc' = "at_bottom" /\ UNCHANGED scroll_exit
  /\ UNCHANGED << total_scroll_percent, scroll_steps, scroll_rest >>

\* lines 136-144: page.evaluate answers within 3 s
AtBottomAnswered ==
  /\ scroll_pc = "at_bottom"
  /\ \E at_bottom \in BOOLEAN :
       IF at_bottom
       THEN LoopLeft("bottom")
       ELSE scroll_pc' = "front" /\ UNCHANGED scroll_exit
  /\ UNCHANGED << total_scroll_percent, scroll_steps, scroll_rest >>

\* lines 146-148: one of the two wait_for of the loop raises
\* asyncio.TimeoutError
StepTimesOut ==
  /\ scroll_pc \in {"natural_scroll", "at_bottom"}
  /\ LoopLeft("timeout")
  /\ UNCHANGED << total_scroll_percent, scroll_steps, scroll_rest >>

\* lines 149-151: any await of the loop raises another Exception
StepRaises ==
  /\ scroll_pc \in {"front", "natural_scroll", "load_wait", "at_bottom"}
  /\ LoopLeft("error")
  /\ UNCHANGED << total_scroll_percent, scroll_steps, scroll_rest >>

\* scrape_async line 421: the overall timeout cancels the attempt at an
\* await of the loop; CancelledError is not an Exception and passes the
\* except clauses
ScrollCancelled ==
  /\ scroll_pc \in {"front", "natural_scroll", "load_wait", "at_bottom"}
  /\ LoopLeft("cancelled")
  /\ UNCHANGED << total_scroll_percent, scroll_steps, scroll_rest >>

\* line 104, and line 109 entered
ScrollInit ==
  /\ ScraperAtRest
  /\ NotExiting
  /\ PipeIdle
  /\ CacheIdle
  /\ BatchIdle
  /\ UrlIdle
  /\ scroll_pc = "front"
  /\ total_scroll_percent = 0
  /\ scroll_steps = 0
  /\ scroll_exit = "none"

ScrollNext ==
  \/ BroughtToFront
  \/ NaturalScrollDone
  \/ LoadWaited
  \/ AtBottomAnswered
  \/ StepTimesOut
  \/ StepRaises
  \/ ScrollCancelled

\* Every await of the loop ends: natural_scroll and page.evaluate are under
\* wait_for, wait_or_timeout bounds its wait, the sleep is finite, and the
\* overall timeout of scrape_async cancels what is left.
ScrollSpec == ScrollInit /\ [][ScrollNext]_vars /\ WF_vars(ScrollNext)

(* ------------------------------ properties ---------------------------- *)

Holders(flag) == { r \in Requests : flag[r] }

\* the calls inside the throttled section of domain key d
InThrottle(d) ==
  { r \in Requests : in_throttle[r] /\ get_domain(url[r]) = d }

OpenPages == { p \in PageIds : page_state[p] = "open" }

\* the attempt that created page p is over (its finally has run)
AttemptOver(p) == ~(attempt[p[1]] = p[2] /\ page[p[1]])

Last(s) == s[Len(s)]

\* the call r has made attempts and each of them failed
AllAttemptsFailed(r) == Len(errs[r]) = attempt[r] + 1

\* C1: calls whose URLs reduce to the same throttle key are never inside
\* the throttled section together; a.example.com and b.example.com reduce
\* to the same key.
C1_OneAttemptPerDomain ==
  /\ \A r1, r2 \in Requests :
       (r1 # r2 /\ in_throttle[r1] /\ in_throttle[r2])
         => get_domain(url[r1]) # get_domain(url[r2])
  /\ \A d \in DOMAIN domain_semaphores :
       domain_semaphores[d] = 1 - Cardinality(InThrottle(d))

\* C1 witness: two hosts of one domain; one call navigates inside the
\* throttled section while the other waits for the same semaphore.
C1_Witness ==
  \E r1, r2 \in Requests :
    /\ url[r1] # url[r2]
    /\ pc[r1] = "navigating" /\ in_throttle[r1]
    /\ pc[r2] = "wait_domain"
    /\ get_domain(url[r1]) = get_domain(url[r2])

\* C2: the attempts that hold a tab slot never outnumber the tab limit,
\* and the semaphore's value accounts for each of them.
C2_TabLimit ==
  /\ Cardinality(Holders(has_tab)) <= max_tabs
  /\ tab_semaphore = max_tabs - Cardinality(Holders(has_tab))

\* C2 witness: more attempts than slots: every slot is held and one
\* attempt more waits for a slot.
C2_Witness ==
  \E r1, r2 \in Requests :
    /\ Cardinality(Holders(has_tab)) = max_tabs
    /\ has_tab[r1]
    /\ pc[r2] = "wait_tab"

\* C3 (as claimed): the pages created and not yet closed never outnumber
\* the tab limit.
C3_OpenPagesWithinLimit == Cardinality(OpenPages) <= max_tabs

\* C4: the context is never launched twice for one need: at most one call
\* is inside _ensure_shared_context, the launch runs only while no context
\* is stored, and at most one launched context is alive, the stored one.
C4_SingleLaunch ==
  /\ Cardinality({ r \in Requests : pc[r] \in LockHeldPcs }) <= 1
  /\ \A r \in Requests :
       pc[r] \in {"chrome_locks", "launching"} => shared_context = 0
  /\ live_contexts \subseteq {shared_context}
  /\ Cardinality(live_contexts) <= 1

\* C4 witness: a call arrives in get_context while another is launching
\* the context, and waits for the lock.
C4_Witness ==
  \E r1, r2 \in Requests :
    /\ pc[r1] = "launching"
    /\ pc[r2] = "wait_ctx"

\* the bookkeeping of page.close(): never called twice, never before the
\* attempt is over, and once the attempt is over, whatever ended it, the
\* release task exists and calls close() one time
CloseAtMostOnce ==
  \A p \in PageIds :
    /\ close_calls[p] <= 1
    /\ page_state[p] = "none" => (task[p] = "none" /\ close_calls[p] = 0)
    /\ page_state[p] # "none" =>
         \/ ~AttemptOver(p) /\ task[p] = "none" /\ close_calls[p] = 0
         \/ AttemptOver(p) /\ task[p] = "scheduled" /\ close_calls[p] = 0
         \/ AttemptOver(p) /\ task[p] \notin {"none", "scheduled"}
              /\ close_calls[p] = 1

\* C5: page.close() is invoked exactly once on every page created,
\* whichever way the attempt ends: at most once in every state, and once
\* the attempt that created the page is over, close() is eventually called.
C5_CloseExactlyOnce ==
  /\ []CloseAtMostOnce
  /\ \A p \in PageIds :
       (page_state[p] # "none" /\ AttemptOver(p)) ~> (close_calls[p] = 1)

\* C5 witness: an attempt that had created its page was cancelled by the
\* overall timeout, and close() has been called on the page.
C5_Witness ==
  \E r \in Requests :
    /\ errs[r] = << "TimeoutError" >>
    /\ page_state[<< r, 0 >>] # "none"
    /\ close_calls[<< r, 0 >>] = 1

\* C6: a call never runs more than max_retries + 1 attempts; while every
\* attempt so far has failed it either backs off before the next attempt
\* or, after exactly max_retries + 1 failures, has returned a failure
\* result; once attempts run it does not raise.
C6_BoundedRetries ==
  \A r \in Requests :
    /\ attempt[r] <= max_retries[r]
    /\ Len(errs[r]) <= max_retries[r] + 1
    /\ pc[r] = "raised" => (errs[r] = <<>> /\ attempt[r] = 0)
    /\ AllAttemptsFailed(r) =>
         IF Len(errs[r]) = max_retries[r] + 1
         THEN pc[r] = "done" /\ result[r] = FailureResult(Last(errs[r]))
         ELSE pc[r] = "backoff"

\* C6 witness: a call with a retry has failed twice and returned.
C6_Witness ==
  \E r \in Requests :
    /\ max_retries[r] = MaxRetriesBound
    /\ Len(errs[r]) = MaxRetriesBound + 1
    /\ pc[r] = "done"

\* C7: on terminal failure the result has no images, an empty title and,
\* as content, the kind of the error of the final attempt.
C7_FinalErrorSurfaced ==
  \A r \in Requests :
    (pc[r] = "done" /\ AllAttemptsFailed(r)) =>
      /\ result[r].images = <<>>
      /\ result[r].title = ""
      /\ result[r].content = Last(errs[r])
      /\ result[r].content \in ErrorKinds

\* C7 witness: the first attempt failed in one way, the final one in
\* another, and the final one is reported.
C7_Witness ==
  \E r \in Requests :
    /\ pc[r] = "done"
    /\ errs[r] = << "Error", "TimeoutError" >>
    /\ result[r].content = "TimeoutError"

\* C8 (as claimed): during the backoff and at the start of the next
\* attempt the call holds no throttle, no tab slot and no lease, and the
\* pages of its failed attempts are closed.
C8_NothingHeldAcrossAttempts ==
  \A r \in Requests :
    (pc[r] = "backoff" \/ (pc[r] = "ready" /\ attempt[r] > 0)) =>
      /\ ~in_throttle[r] /\ ~has_tab[r] /\ ~has_lease[r]
      /\ \A a \in Attempts :
           a < Len(errs[r]) => page_state[<< r, a >>] \in {"none", "closed"}

\* the last attempt of call r was ended by the overall timeout
TimedOut(r) ==
  /\ errs[r] # <<>>
  /\ Last(errs[r]) = "TimeoutError"
  /\ pc[r] \in {"backoff", "done"}

\* once the overall timeout has ended an attempt, the call holds no
\* throttle, no tab slot and no lease, the refcount and the semaphores
\* account for the holders that remain, and the release task of the page
\* the attempt had created has been started
ReleasedAfterTimeout ==
  /\ \A r \in Requests :
       TimedOut(r) =>
         /\ ~in_throttle[r] /\ ~has_tab[r] /\ ~has_lease[r]
         /\ page_state[<< r, Len(errs[r]) - 1 >>] # "none"
              => task[<< r, Len(errs[r]) - 1 >>] # "none"
  /\ context_refcount = Cardinality(Holders(has_lease))
  /\ tab_semaphore = max_tabs - Cardinality(Holders(has_tab))
  /\ \A d \in DOMAIN domain_semaphores :
       domain_semaphores[d] = 1 - Cardinality(InThrottle(d))

C10_ThrottleErrorNotFatal ==
  \A r \in Requests :
    (pc[r] \notin {"idle", "absent", "raised"} /\ urlparse_raises(url[r]))
      => "ValueError" \notin Range(errs[r])

\* a call waits for a tab slot while every slot is held
WaitsForSlot(r) == pc[r] = "wait_tab"

\* the wait of call r was ended by its own overall timeout
CancelledWaiting(r) ==
  /\ errs[r] # <<>>
  /\ Last(errs[r]) = "TimeoutError"
  /\ ~has_tab[r]

\* C11 as claimed: a call that waits for a tab slot leaves the wait only by
\* being granted a slot, and is eventually granted one.
C11_WaiterAlwaysGranted ==
  /\ [][\A r \in Requests :
         WaitsForSlot(r) => (WaitsForSlot(r)' \/ has_tab'[r])]_vars
  /\ \A r \in Requests : WaitsForSlot(r) ~> has_tab[r]

\* C11 amended: the limiter never rejects a call that finds every slot
\* held: it waits, and the wait ends only with a slot granted or with the
\* call's own overall timeout; when holders go on, a waiting call is
\* eventually granted a slot unless that timeout cancels it first.
C11_WaiterGrantedOrTimedOut ==
  /\ [][\A r \in Requests :
         WaitsForSlot(r) =>
           \/ WaitsForSlot(r)'
           \/ has_tab'[r]
           \/ CancelledWaiting(r)']_vars
  /\ \A r \in Requests :
       WaitsForSlot(r) ~> (has_tab[r] \/ CancelledWaiting(r))

\* C11 witness: a call waits while every slot is held by others
C11_Witness ==
  \E r \in Requests :
    /\ WaitsForSlot(r)
    /\ tab_semaphore = 0
    /\ Cardinality(Holders(has_tab)) = max_tabs

\* the attempt of call r ends with the result of the PDF path in the step
ReturnsPdf(r) ==
  /\ pc'[r] = "done"
  /\ result'[r] = AttemptResult("ok_pdf")
  /\ errs'[r] = errs[r]

\* the attempt of call r is cancelled by the overall timeout in the step
CancelledInStep(r) ==
  /\ errs'[r] = Append(errs[r], "TimeoutError")
  /\ pc'[r] \in {"backoff", "done"}

\* C12 as claimed: once the navigation response is a PDF, the attempt
\* returns (markdown of the body, no images, the PDF title) and never enters
\* the settle, scroll or extraction steps.
C12_PdfSkipsDom ==
  [][\A r \in Requests :
       pc[r] = "pdf_body" =>
         \/ pc'[r] = "pdf_body"
         \/ ReturnsPdf(r)
         \/ CancelledInStep(r)]_vars

\* C12 amended: once the navigation response is a PDF, the attempt returns
\* (markdown of the body, no images, the PDF title) without settle, scroll
\* or extraction when the body is fetched and converted; when fetching or
\* converting raises, it goes on with the settle step of the HTML flow.
C12_PdfSkipsDomUnlessParsingFails ==
  [][\A r \in Requests :
       pc[r] = "pdf_body" =>
         \/ pc'[r] = "pdf_body"
         \/ ReturnsPdf(r)
         \/ CancelledInStep(r)
         \/ (pc'[r] = "settling" /\ errs'[r] = errs[r]
               /\ result'[r] = result[r])]_vars

\* C12 witness: a call has returned the result of the PDF path
C12_Witness ==
  \E r \in Requests :
    /\ pc[r] = "done"
    /\ result[r] = AttemptResult("ok_pdf")
    /\ page_state[ThisPage(r)] # "none"

\* the attempt of call r ends with the short content as its result
ReturnsShort(r) ==
  /\ pc'[r] = "done"
  /\ result'[r] = AttemptResult("ok_short")
  /\ errs'[r] = errs[r]

\* C13: content shorter than 400 characters never fails the attempt: the
\* attempt that is taking the diagnostic screenshot ends with the content,
\* images and title as its result (or is cancelled by the overall timeout),
\* and no attempt fails with the error of preparing the screenshot
\* directory.
C13_ShortContentNeverFails ==
  [][\A r \in Requests :
       /\ pc[r] = "screenshot" =>
            \/ pc'[r] = "screenshot"
            \/ ReturnsShort(r)
            \/ CancelledInStep(r)
       /\ errs'[r] # errs[r] => Last(errs'[r]) # "FileNotFoundError"]_vars

\* the elements of the page that get a score: the first element of each
\* http(s) URL, unless it is below the minimum size
Scored(imgs) ==
  { i \in 1..Len(imgs) :
      /\ imgs[i].src > 0
      /\ \A j \in 1..(i - 1) : imgs[j].src # imgs[i].src
      /\ size_score(imgs[i]) # -1 }

ScoreOf(img) == base_score(img) + size_score(img)

\* C14: the list returned by get_relevant_images has at most 5 entries,
\* each with a score of 2.0 or more, in non-increasing score order, no two
\* with the same URL, and no scored image of 2.0 or more is left out while
\* a lower-scoring one is in the list.
C14_TopImages ==
  pipe_pc = "ranked" =>
    /\ Len(image_urls) <= TopImages
    /\ \A k \in 1..Len(image_urls) : image_urls[k].score >= MinRelevanceScore
    /\ \A k \in 1..(Len(image_urls) - 1) :
         image_urls[k].score >= image_urls[k + 1].score
    /\ \A k, l \in 1..Len(image_urls) :
         image_urls[k].url = image_urls[l].url => k = l
    /\ \A i \in Scored(page_imgs) :
         ( /\ ScoreOf(page_imgs[i]) >= MinRelevanceScore
           /\ \A k \in 1..Len(image_urls) :
                image_urls[k].url # page_imgs[i].src )
         => \A k \in 1..Len(image_urls) :
              image_urls[k].score >= ScoreOf(page_imgs[i])
    /\ \A k \in 1..Len(image_urls) :
         \E i \in Scored(page_imgs) :
           /\ page_imgs[i].src = image_urls[k].url
           /\ ScoreOf(page_imgs[i]) = image_urls[k].score

\* C14 witness: more than 5 images qualify, with different scores, and the
\* list holds 5 of them
C14_Witness ==
  /\ pipe_pc = "ranked"
  /\ Len(image_urls) = TopImages
  /\ image_urls[1].score > image_urls[TopImages].score
  /\ Cardinality({ i \in Scored(page_imgs) :
                     ScoreOf(page_imgs[i]) >= MinRelevanceScore }) > TopImages

\* the element at position i of the page is one of the returned survivors
IsSurvivor(i) ==
  \E k \in 1..Len(image_urls) : image_urls[k].url = page_imgs[i].src

\* C15: for html output no image element is removed from the document;
\* for text and markdown output every image element that is not one of the
\* returned survivors is removed from it.
C15_PruningByFormat ==
  pipe_pc = "ranked" =>
    IF output_format = "html"
    THEN in_soup = 1..Len(page_imgs)
    ELSE \A i \in in_soup : IsSurvivor(i)

\* the key of the claim: the operation name, the URL and the output format
KeyOfCall(a) ==
  << "_scrape",
     << << "url", a.url >>, << "output_format", a.output_format >> >> >>

\* a scrape invoked for the same URL and output format produced this result
ProducedFor(data, a) ==
  /\ Len(data.content) > 400
  /\ data.by \in Callers
  /\ c_args[data.by].url = a.url
  /\ c_args[data.by].output_format = a.output_format
  /\ c_invoked[data.by] = 1

\* C16: with allow_cache, when the lookup of the key (operation name, URL,
\* output format) finds an entry at most 30 minutes old, the stored result
\* is returned and the scrape is not invoked; when it finds an older entry
\* the entry is deleted and the scrape is invoked; when it finds none the
\* scrape is invoked; and the scrape is invoked in no other case.
C16_ScrapeOnlyOnMiss ==
  [][\A c \in Callers :
       c_args[c].allow_cache =>
         LET k == KeyOfCall(c_args[c]) IN
         /\ (c_pc[c] = "select" /\ c_pc'[c] # "select") =>
              IF k \in DOMAIN cache_db /\ now - cache_db[k].timestamp <= 30
              THEN /\ c_pc'[c] = "done"
                   /\ c_invoked'[c] = 0
                   /\ c_ret'[c].content = cache_db[k].value[2]
                   /\ c_ret'[c].by = cache_db[k].value[3]
                   /\ ProducedFor(c_ret'[c], c_args[c])
              ELSE IF k \in DOMAIN cache_db
              THEN c_pc'[c] = "deleting" /\ c_invoked'[c] = 0
              ELSE c_pc'[c] = "scraping" /\ c_invoked'[c] = 1
         /\ (c_pc[c] = "deleting" /\ c_pc'[c] # "deleting") =>
              /\ k \notin DOMAIN cache_db'
              /\ c_pc'[c] = "scraping"
              /\ c_invoked'[c] = 1
         /\ c_invoked'[c] # c_invoked[c] => c_pc[c] \in {"select", "deleting"}
    ]_vars

\* C16 witness: one call was served an entry that was 30 minutes old without
\* a scrape, and another call found the entry too old, deleted it and is
\* scraping
C16_Witness ==
  \E c, d \in Callers :
    /\ c # d
    /\ c_args[c].allow_cache /\ c_args[d].allow_cache
    /\ KeyOfCall(c_args[c]) = KeyOfCall(c_args[d])
    /\ c_pc[c] = "done" /\ c_invoked[c] = 0 /\ c_ret[c].by \notin {c, d}
    /\ c_pc[d] = "scraping" /\ c_invoked[d] = 1
    /\ now > 30
    /\ KeyOfCall(c_args[c]) \notin DOMAIN cache_db

\* C17: a batch request never raises, and when it returns the response
\* holds exactly one result per requested URL, in the order of the request.
C17_OneResultPerUrl ==
  /\ b_state # "raised"
  /\ b_state = "returned" =>
       /\ Len(b_results) = Len(b_urls)
       /\ \A i \in BatchItems : b_results[i].content[2] = i

\* C18: when cleanup_on_exit returns, the context that was stored is closed,
\* the driver is stopped and both stored references are cleared, whatever
\* the refcount and whether or not closing the context raised.
C18_ShutdownClearsAll ==
  [][(exit_pc # "returned" /\ exit_pc' = "returned") =>
       /\ shared_context' = 0
       /\ ~ shared_driver'
       /\ shared_context \notin live_contexts'
    ]_vars

\* C19: normalize_url returns "https://" followed by the URL when the URL
\* has no scheme and the URL itself when it has one, and a second
\* application returns what the first returned.
C19_NormalizeIdempotent ==
  /\ u_once # NotCalled =>
       u_once = IF urlparse_scheme(u_in) = << >>
                THEN << "https:", "//" >> \o u_in
                ELSE u_in
  /\ u_twice # NotCalled => u_twice = u_once

\* the host of the URL: its network location without userinfo and port
HostOf(u) ==
  SelectSeq(urlparse_netloc(u), LAMBDA t : t \notin UserTokens \cup PortTokens)

\* C20: for a URL whose host has more than two dot-separated labels
\* get_domain returns the last two labels joined by a dot, and for a host
\* of one or two labels it returns the host.
C20_LastTwoLabels ==
  u_domain \notin {NotCalled, ValueError} =>
    LET labels == split_dot(HostOf(u_in))
    IN IF Len(labels) > 2
       THEN u_domain = join_dot(SubSeq(labels, Len(labels) - 1, Len(labels)))
       ELSE u_domain = HostOf(u_in)

\* the calls that hold the context lock in get_context
LockHolders == { r \in Requests : pc[r] \in LockHeldPcs }

\* C21: the refcount is the number of leases held and is never negative;
\* it changes only by one, together with the entry or the exit of exactly
\* one lease, in a step that has the context lock.
C21_RefcountIsLeases ==
  /\ [](context_refcount = Cardinality(Holders(has_lease))
        /\ context_refcount >= 0)
  /\ [][\A r \in Requests :
          /\ (~has_lease[r] /\ has_lease'[r]) =>
               /\ context_refcount' = context_refcount + 1
               /\ (lock_free \/ r \in LockHolders)
               /\ \A q \in Requests \ {r} : has_lease'[q] = has_lease[q]
          /\ (has_lease[r] /\ ~has_lease'[r]) =>
               /\ context_refcount' = context_refcount - 1
               /\ lock_free
               /\ \A q \in Requests \ {r} : has_lease'[q] = has_lease[q]
     ]_vars

\* the mutex of the domain of call r is held, or queued for, by another call
MutexHeld(r) ==
  \E q \in Requests \ {r} :
    /\ pc[q] \notin {"idle", "absent", "ready", "backoff", "done", "raised"}
    /\ ~ urlparse_raises(url[q])
    /\ get_domain(url[q]) = get_domain(url[r])
    /\ (in_throttle[q] \/ pc[q] = "wait_domain")

\* call r starts to acquire the throttle of its domain in the step
StartsAcquiring(r) ==
  /\ pc[r] = "ready"
  /\ pc'[r] # "ready"
  /\ ~ urlparse_raises(url[r])

\* C24: an acquirer that finds the mutex of its domain free enters at once
\* and never sleeps; one that finds it held waits for it, and when it gets
\* it sleeps, holding it, before it takes a tab slot or navigates; nobody
\* else sleeps.
C24_PacingIffContended ==
  /\ [](\A r \in Requests :
          /\ pc[r] = "pacing" =>
               in_throttle[r] /\ was_locked[r] /\ ~has_tab[r] /\ ~page[r]
          /\ pc[r] = "wait_domain" => was_locked[r] /\ ~in_throttle[r])
  /\ [][\A r \in Requests :
          /\ StartsAcquiring(r) =>
               IF MutexHeld(r)
               THEN pc'[r] = "wait_domain" /\ was_locked'[r]
               ELSE /\ in_throttle'[r]
                    /\ ~ was_locked'[r]
                    /\ pc'[r] \in {"wait_tab", "wait_ctx", "driver_start",
                                   "chrome_locks", "new_page"}
          /\ (pc[r] = "wait_domain" /\ in_throttle'[r]) => pc'[r] = "pacing"
          /\ (pc[r] # "ready" /\ pc'[r] # "ready") =>
               was_locked'[r] = was_locked[r]
     ]_vars

\* C24 witness: a call that found the mutex held got it after the holder
\* left and sleeps
C24_Witness ==
  \E r \in Requests :
    /\ pc[r] = "pacing"
    /\ in_throttle[r]
    /\ \E q \in Requests \ {r} : pc[q] = "done"

\* the delayed teardown of page p is between its second look at the refcount
\* and the end of context.close()
TeardownCloses(p) == task[p] = "ctx_closing"

\* C22: the delayed teardown closes the shared context only when the
\* refcount is zero: when a lease is held at the end of the grace sleep the
\* re-check fails and the context stays as it is, no lease is taken while
\* the teardown closes, and the context of a lease holder is open.
C22_NoCloseWhileLeased ==
  /\ [](\A r \in Requests :
          has_lease[r] =>
            /\ shared_context # 0
            /\ shared_context \in live_contexts
            /\ \A p \in PageIds : ~ TeardownCloses(p))
  /\ [](\A p \in PageIds : TeardownCloses(p) => context_refcount = 0)
  /\ [][\A p \in PageIds :
          (task[p] = "grace" /\ task'[p] # "grace" /\ context_refcount > 0) =>
            /\ task'[p] = "done"
            /\ shared_context' = shared_context
            /\ live_contexts' = live_contexts
     ]_vars

\* C22 witness: a lease was taken during the grace sleep of a teardown
C22_Witness ==
  \E p \in PageIds, r \in Requests :
    /\ task[p] = "grace"
    /\ has_lease[r]
    /\ context_refcount > 0

\* no call of scrape_async is under way
NoCallUnderWay == \A r \in Requests : pc[r] \in {"idle", "absent", "done", "raised"}

\* a release task is still to run or running
TeardownPending == \E p \in PageIds : task[p] \notin {"none", "done"}

\* C23: a lease exit that brings the refcount to zero leaves a release task
\* scheduled, and the shared context does not stay stored once no call is
\* under way and every release task has finished.
C23_ZeroSchedulesTeardown ==
  /\ [][(context_refcount = 1 /\ context_refcount' = 0) =>
          \E p \in PageIds : task[p] = "none" /\ task'[p] = "scheduled"
     ]_vars
  /\ []((NoCallUnderWay /\ ~ TeardownPending) => shared_context = 0)

\* C25: what an attempt holds is nested in the order throttle, tab slot,
\* lease, page: a tab slot is held only inside the throttle, a lease only
\* with a tab slot, a page only with a lease; whoever waits for a resource
\* holds exactly the ones before it; and a step gives back the throttle
\* only with the tab slot, and the tab slot only with the lease.
C25_NestedAcquisition ==
  /\ [](\A r \in Requests :
          /\ has_tab[r] => in_throttle[r]
          /\ has_lease[r] => has_tab[r]
          /\ page[r] => has_lease[r]
          /\ pc[r] = "wait_domain" => ~ in_throttle[r]
          /\ pc[r] \in {"pacing", "wait_tab"} => in_throttle[r] /\ ~ has_tab[r]
          /\ pc[r] \in {"wait_ctx"} \cup LockHeldPcs => has_tab[r] /\ ~ has_lease[r]
          /\ pc[r] = "new_page" => has_lease[r] /\ ~ page[r])
  /\ [][\A r \in Requests :
          /\ (in_throttle[r] /\ ~ in_throttle'[r]) => ~ has_tab'[r] /\ ~ has_lease'[r]
          /\ (has_tab[r] /\ ~ has_tab'[r]) => ~ has_lease'[r]
          /\ (~ in_throttle[r] /\ in_throttle'[r]) =>
               ~ has_tab[r] /\ ~ has_lease[r] /\ ~ page[r]
          /\ (~ has_tab[r] /\ has_tab'[r]) => ~ has_lease[r] /\ ~ page[r]
          /\ (~ has_lease[r] /\ has_lease'[r]) => ~ page[r] /\ ~ page'[r]
     ]_vars

\* C25 witness: one attempt holds throttle, tab slot, lease and page while
\* another has the throttle of its own domain and waits for a tab slot
C25_Witness ==
  \E r, q \in Requests :
    /\ in_throttle[r] /\ has_tab[r] /\ has_lease[r] /\ page[r]
    /\ pc[q] = "wait_tab" /\ in_throttle[q]

\* what an attempt returns when it ends on the HTML path
HtmlResults ==
  { AttemptResult(o) : o \in {"ok_html", "ok_short", "content_timeout"} }

\* the positions of a call inside _perform_scrape_operation
PageSessionPcs ==
  {"navigating", "pdf_body", "settling", "load_timeout", "settling_idle",
   "idle_timeout", "scrolling", "extracting", "screenshot"}

\* C26: the stages of an attempt follow each other in the order created,
\* navigating, settling, scrolling, extracting, closed: the page is created
\* once per attempt and navigation starts with it, each later stage is
\* entered only from the one before it (settling also from the PDF handling
\* that falls back to HTML), an HTML result is returned only from
\* extraction, and the page is closed only after its attempt is over and
\* stays closed.
C26_StagesInOrder ==
  /\ [][\A r \in Requests :
          /\ (pc'[r] = "navigating" /\ pc[r] # "navigating") =>
               /\ pc[r] = "new_page"
               /\ page_state[ThisPage(r)] = "none"
               /\ page_state'[ThisPage(r)] = "open"
          /\ (pc'[r] = "settling" /\ pc[r] # "settling") =>
               pc[r] \in {"navigating", "pdf_body"}
          /\ (pc'[r] = "load_timeout" /\ pc[r] # "load_timeout") =>
               pc[r] = "settling"
          /\ (pc'[r] = "settling_idle" /\ pc[r] # "settling_idle") =>
               pc[r] \in {"settling", "load_timeout"}
          /\ (pc'[r] = "idle_timeout" /\ pc[r] # "idle_timeout") =>
               pc[r] = "settling_idle"
          /\ (pc'[r] = "scrolling" /\ pc[r] # "scrolling") =>
               pc[r] \in {"settling_idle", "idle_timeout"}
          /\ (pc'[r] = "extracting" /\ pc[r] # "extracting") => pc[r] = "scrolling"
          /\ (pc'[r] = "screenshot" /\ pc[r] # "screenshot") => pc[r] = "extracting"
          /\ (pc'[r] = "done" /\ pc[r] # "done" /\ result'[r] \in HtmlResults) =>
               pc[r] \in {"extracting", "screenshot"}
          /\ (pc[r] \in PageSessionPcs /\ pc'[r] \in PageSessionPcs) =>
               attempt'[r] = attempt[r]
     ]_vars
  /\ [][\A p \in PageIds :
          /\ (page_state'[p] = "closed" /\ page_state[p] # "closed") =>
               page_state[p] = "open" /\ AttemptOver(p)
          /\ page_state[p] = "closed" => page_state'[p] = "closed"
     ]_vars
  /\ [](\A p \in PageIds : page_state[p] = "closed" => AttemptOver(p))

\* C26 witness: a call returned the HTML result of an attempt whose page
\* has been closed
C26_Witness ==
  \E r \in Requests :
    /\ pc[r] = "done"
    /\ result[r] = AttemptResult("ok_html")
    /\ page_state[ThisPage(r)] = "closed"

\* the attempt of call r ends in the step and its exception is handed to
\* the except clause of scrape_async
FailsInStep(r) ==
  /\ \E k \in ErrorKinds : errs'[r] = Append(errs[r], k)
  /\ pc'[r] \in {"backoff", "done"}

\* the step takes call r from one stage to the next, or returns a result,
\* without an exception
StageSucceeds(r) ==
  \/ pc[r] = "navigating" /\ pc'[r] \in {"settling", "pdf_body"}
  \/ pc[r] = "pdf_body" /\ ReturnsPdf(r)
  \/ pc[r] \in SettleWaits /\ pc'[r] \in {after_wait(pc[r]), timeout_handler(pc[r])}
  \/ \E w \in SettleWaits : pc[r] = timeout_handler(w) /\ pc'[r] = after_wait(w)
  \/ pc[r] = "scrolling" /\ pc'[r] = "extracting"
  \/ pc[r] = "extracting" /\ pc'[r] = "screenshot"
  \/ /\ pc[r] \in {"extracting", "screenshot"}
     /\ pc'[r] = "done"
     /\ result'[r] \in HtmlResults
     /\ errs'[r] = errs[r]

C28_ContentTimeoutIsFailure ==
  /\ [](\A r \in Requests : result[r] # AttemptResult("content_timeout"))
  /\ [][\A r \in Requests :
          (pc[r] = "extracting" /\ result'[r] = AttemptResult("content_timeout")) =>
            /\ errs'[r] = Append(errs[r], "TimeoutError")
            /\ pc'[r] = IF is_last_attempt(r) THEN "done" ELSE "backoff"
     ]_vars

\* C29: a settle wait that timed out never fails the attempt: from the
\* except clause of wait_or_timeout the attempt goes on with the step that
\* follows the wait, with everything it holds and no error recorded.
C29_SettleTimeoutNotFatal ==
  [][\A r \in Requests :
       \A w \in SettleWaits :
         (pc[r] = timeout_handler(w) /\ pc'[r] # pc[r]) =>
           /\ pc'[r] = after_wait(w)
           /\ errs'[r] = errs[r]
           /\ attempt'[r] = attempt[r]
           /\ page'[r] /\ has_lease'[r] /\ has_tab'[r] /\ in_throttle'[r]
    ]_vars

\* C29 witness: the load wait of one attempt and the network-idle wait of
\* another have timed out
C29_Witness ==
  \E r, q \in Requests :
    /\ pc[r] = "load_timeout"
    /\ pc[q] = "idle_timeout"

\* C30: the scroll loop ends.  Each pass adds 46 to 97 to the total, a pass
\* is started only below the cap of 500, so that no more than 11 passes are
\* started; the loop is left at the cap, when the page reports the bottom,
\* when a step times out or raises, and nothing of it runs afterwards.
C30_ScrollTerminates ==
  /\ [](/\ scroll_steps <= 11
        /\ total_scroll_percent >= 46 * scroll_steps
        /\ total_scroll_percent <= 97 * scroll_steps
        /\ (scroll_pc = "front") => total_scroll_percent < 500
        /\ (scroll_pc = "returned") <=> (scroll_exit # "none")
        /\ (scroll_exit = "cap") => total_scroll_percent >= 500)
  /\ [][(total_scroll_percent' # total_scroll_percent) =>
          /\ total_scroll_percent' - total_scroll_percent \in 46 .. 97
          /\ scroll_steps' = scroll_steps + 1
          /\ total_scroll_percent < 500
     ]_vars
  /\ [][(scroll_pc = "returned") => UNCHANGED scrollvars]_vars
  /\ <>(scroll_pc = "returned")

\* C30 witness: the page never reported the bottom and the loop was left at
\* the cap after its eleventh pass
C30_Witness ==
  /\ scroll_exit = "cap"
  /\ scroll_steps = 11

\* the step is a failure of the cleanup that release task p runs: the page
\* close times out or raises, the close of the context raises, the stop of
\* the driver raises
CleanupFailsInStep(p) ==
  /\ task'[p] = "done"
  /\ \/ task[p] = "closing" /\ page_state'[p] = "open"
     \/ task[p] = "ctx_closing" /\ shared_context' # 0
     \/ task[p] = "drv_stopping" /\ shared_driver'

\* C31: a failure of the page close or of the teardown of the context stays
\* in the release task: the step changes no call's position, errors or
\* result and no semaphore, and when it happened under the context lock the
\* lock is free afterwards; the result of a call that has returned never
\* changes.
C31_CleanupFailureContained ==
  /\ [][\A p \in PageIds :
          CleanupFailsInStep(p) =>
            /\ UNCHANGED << pc, errs, result, outcome, attempt >>
            /\ UNCHANGED << in_throttle, has_tab, has_lease, semvars >>
            /\ UNCHANGED context_refcount
            /\ (task[p] # "closing") => ~ context_lock'
     ]_vars
  /\ [][\A r \in Requests :
          pc[r] = "done" => pc'[r] = "done" /\ result'[r] = result[r]
     ]_vars

\* C31 witness: the close of a page failed, the call it belonged to has
\* returned its HTML result, and another call is under way
C31_Witness ==
  \E p \in PageIds, q \in Requests :
    /\ task[p] = "done"
    /\ page_state[p] = "open"
    /\ pc[p[1]] = "done"
    /\ result[p[1]] = AttemptResult("ok_html")
    /\ q # p[1]
    /\ pc[q] \in SuspendedPcs

\* C32: a launch that fails does not end the attempt: the call leaves the
\* launch of its lease call with the lease, by cancellation, or towards the
\* recovery step and the relaunch that follows it.  (_ensure_shared_context
\* has one launch per lease call, so every launch is the first of its call.)
C32_RelaunchAfterRecovery ==
  [][\A r \in Requests :
       (pc[r] = "launching" /\ pc'[r] # "launching") =>
         \/ has_lease'[r]
         \/ CancelledInStep(r)
         \/ pc'[r] = "chrome_locks"
    ]_vars

\* the one image of the page, and its dimensions as parsed
TheImage == page_imgs[1]

ParsedWidth == parse_dimension(TheImage.width)

ParsedHeight == parse_dimension(TheImage.height)

\* the image declares a width and a height that are numbers above 0
DeclaresBoth ==
  /\ has_value(TheImage.width) /\ ParsedWidth > 0
  /\ has_value(TheImage.height) /\ ParsedHeight > 0

\* the tiers as stated, in tenths
StatedBonus ==
  IF ParsedWidth >= 2000 /\ ParsedHeight >= 1000 THEN 30
  ELSE IF ParsedWidth >= 1600 \/ ParsedHeight >= 1600 THEN 20
  ELSE IF ParsedWidth >= 800 \/ ParsedHeight >= 800 THEN 10
  ELSE 0

\* C33: an image with a relevant class that declares both dimensions and
\* is not below the minimum size is returned with the score of its class
\* and alt text plus 3 when width >= 2000 and height >= 1000, else plus 2
\* when a dimension is >= 1600, else plus 1 when a dimension is >= 800,
\* else plus 0.
C33_SizeBonusTiers ==
  ( /\ pipe_pc = "ranked"
    /\ TheImage.cls
    /\ DeclaresBoth
    /\ (ParsedWidth >= 500 \/ ParsedHeight >= 300) )
  => /\ Len(image_urls) = 1
     /\ image_urls[1].score = base_score(TheImage) + StatedBonus

\* C34: an image whose declared width is below 500 and whose declared
\* height is below 300, 0 included, is not returned, whatever its class
\* and alt text.
C34_SmallImageExcluded ==
  ( /\ pipe_pc = "ranked"
    /\ has_value(TheImage.width) /\ ParsedWidth < 500
    /\ has_value(TheImage.height) /\ ParsedHeight < 300 )
  => image_urls = <<>>

\* call r waits for the throttle of its domain, for a tab slot or for the
\* context lock
Waiting(r) == pc[r] \in {"wait_domain", "wait_tab", "wait_ctx", "unwinding"}

\* what call r waits for can be handed to it in the next step
Grantable(r) ==
  ENABLED (AcquireDomain(r) \/ AcquireTab(r) \/ EnterContext(r) \/ Unwind(r))

\* call r is in an operation that ends by itself: a sleep, an operation
\* under the context lock, an operation on its page, or the code between
\* two of them
Operating(r) ==
  pc[r] \in (SuspendedPcs \cup {"ready", "backoff", "load_timeout", "idle_timeout"})
              \ {"wait_domain", "wait_tab", "wait_ctx"}

\* release task p is in an operation that ends by itself, or can take the
\* lock it needs
TaskOperating(p) ==
  \/ task[p] \in {"scheduled", "closing", "ctx_closing", "drv_stopping"}
  \/ task[p] \in {"rc_lock", "grace"} /\ lock_free

\* C35: no deadlock: in every state in which a call waits for the throttle,
\* a tab slot or the context lock, a waiting call can be granted what it
\* waits for, or a call or a release task is in an operation that ends by
\* itself; and what is waited for is then held by one of those: the context
\* lock by an operation under it, a tab slot or a throttle by a call that
\* does not wait for the same.
C35_NoDeadlock ==
  /\ (\E r \in Requests : Waiting(r)) =>
        \/ \E r \in Requests : Waiting(r) /\ Grantable(r)
        \/ \E r \in Requests : Operating(r)
        \/ \E p \in PageIds : TaskOperating(p)
        \/ exit_pc \in {"ctx_closing", "drv_stopping"}
  /\ \A r \in Requests :
       /\ (pc[r] \in {"wait_ctx", "unwinding"} /\ ~ Grantable(r)) =>
            \/ \E q \in Requests \ {r} : pc[q] \in LockHeldPcs
            \/ \E p \in PageIds : task[p] \in {"ctx_closing", "drv_stopping"}
            \/ exit_pc = "ctx_closing"
       /\ (pc[r] = "wait_tab" /\ ~ Grantable(r)) =>
            \E q \in Requests \ {r} : has_tab[q]
       /\ (pc[r] = "wait_domain" /\ ~ Grantable(r)) =>
            \E q \in Requests \ {r} :
              /\ in_throttle[q]
              /\ domain_key[url[q]] = domain_key[url[r]]

\* C35 witness: a call waits for the context lock, holding its tab slot
\* and throttle, while the teardown closes the context under the lock
C35_Witness ==
  \E r \in Requests, p \in PageIds :
    /\ pc[r] = "wait_ctx"
    /\ has_tab[r] /\ in_throttle[r]
    /\ task[p] = "ctx_closing"

\* C36: when the delayed teardown closes the shared context, no page is
\* open: every page made from the context has been closed before.
C36_NoOpenPageAtTeardown ==
  [][\A p \in PageIds :
       (task[p] = "ctx_closing" /\ shared_context # 0 /\ shared_context' = 0) =>
         OpenPages = {}
    ]_vars

\* C37: whenever a shared context is stored, a started driver is stored.
C37_ContextImpliesDriver == shared_context # 0 => shared_driver

\* C38: a launch that fails inside get_context ends the attempt with its
\* exception at the retry loop; the refcount is as before, the call has no
\* lease, the context lock is free and no context is stored, so that the
\* next call of get_context launches again.
C38_LaunchFailureLeavesNothing ==
  [][\A r \in Requests :
       (pc[r] = "launching" /\ FailsInStep(r) /\ ~ CancelledInStep(r)) =>
         /\ Last(errs'[r]) = "Error"
         /\ context_refcount' = context_refcount
         /\ ~ has_lease'[r]
         /\ ~ context_lock'
         /\ shared_context' = 0
         /\ live_contexts' = live_contexts
         /\ needs_launch'
    ]_vars

\* C38 witness: the only call made so far failed an attempt with the driver
\* started and no context ever launched
C38_Witness ==
  \E r \in Requests :
    /\ errs[r] # <<>>
    /\ Last(errs[r]) = "Error"
    /\ pc[r] \in {"backoff", "done"}
    /\ shared_driver
    /\ launches = 0
    /\ \A q \in Requests \ {r} : pc[q] \in {"idle", "absent"}

\* C39: scrape_async called with an empty URL returns at once the result
\* 'A URL was not specified, cancelling request to browse website.' with
\* no images and an empty title: the call is done in its first step, with
\* no throttle, tab slot or lease and no attempt.
C39_EmptyUrlReturnsAtOnce ==
  [][\A r \in Requests :
       (pc[r] = "idle" /\ url[r] = <<>> /\ pc'[r] # "idle") =>
         /\ pc'[r] = "done"
         /\ result'[r] = EmptyUrlResult
         /\ ~ in_throttle'[r] /\ ~ has_tab'[r] /\ ~ has_lease'[r]
         /\ attempt'[r] = 0 /\ errs'[r] = <<>>
    ]_vars

\* C40: a row of the cache is written only in the step in which a scrape
\* returns content longer than 400 characters; a scrape that returns
\* content of 400 characters or fewer leaves the table as it was; and so
\* does a scrape that returns a failure result, so that no row holds a
\* failure result and none is returned without a scrape.
C40_OnlyLongContentCached ==
  [][/\ \A k \in DOMAIN cache_db' :
          (k \notin DOMAIN cache_db \/ cache_db'[k] # cache_db[k]) =>
            \E c \in Callers :
              /\ c_pc[c] = "scraping" /\ c_pc'[c] = "done"
              /\ k = KeyOfCall(c_args[c])
              /\ Len(c_ret'[c].content) > 400
              /\ cache_db'[k].value[2] = c_ret'[c].content
     /\ \A c \in Callers :
          (c_pc[c] = "scraping" /\ c_pc'[c] = "done") =>
            /\ Len(c_ret'[c].content) <= 400 => cache_db' = cache_db
            /\ c_ret'[c].content \in FailureContents(c_args[c].url) =>
                 /\ Len(c_ret'[c].content) <= 400
                 /\ cache_db' = cache_db
     /\ \A k \in DOMAIN cache_db' :
          cache_db'[k].value[2] \notin FailureContents(k[2][1][2])
     /\ \A c \in Callers :
          (c_pc'[c] = "done" /\ c_invoked'[c] = 0) =>
            c_ret'[c].content \notin FailureContents(c_args[c].url)
    ]_vars

\* the part of C40 that is about the length alone: rows are written only
\* from content longer than 400 characters
LongContentOnly ==
  /\ \A k \in DOMAIN cache_db : Len(cache_db[k].value[2]) > 400
  /\ \A c \in Callers :
       (c_pc[c] = "done" /\ c_invoked[c] = 0) => Len(c_ret[c].content) > 400

====
